---- MODULE Spec2Model ----
(***************************************************************************)
(* The demo orchestrator (src/orchestrator/orchestrator_service.py): its   *)
(* per-node state machine, the retry/attempt bookkeeping, the dependency   *)
(* driven scheduling and the result dispatch loop, together with the       *)
(* workers and the at-least-once results queue it talks to.                *)
(***************************************************************************)
EXTENDS Integers, Sequences, FiniteSets, TLC

\* ------------------------------------------------------------------ bounds
\* FAILURE results the workers may return in one run.
MaxFailures == 2
\* Results the broker may deliver a second time in one run.
MaxRedeliver == 1
\* FAILURE results in a run of the single-node graph.
MaxDeepFailures == 4
\* TaskMessages published in a run with redelivery.
MaxTasks == 8
\* FAILURE results in a run of a graph of several nodes that is followed to its
\* end; a single node gets max_debug_retries more, enough to exhaust a retry
\* budget
MaxLiveFailures == 1

\* ------------------------------------------------------- program constants
\* int(os.getenv("DEBUG_MAX_RETRIES", "2"))
max_debug_retries == 2
\* Python's None for an absent attempt number (attempt numbers start at 1,
\* and "stage_attempt or default" treats 0 and None alike).
None == 0
\* Content of a file that does not exist; _hash_file gives "" for it.
NoFile == 0
\* The texts a worker may write to a file.
Contents == {1, 2}

SUCCESS == "SUCCESS"
FAILURE == "FAILURE"

PENDING == "PENDING"
IMPLEMENTING == "IMPLEMENTING"
LINTING == "LINTING"
TESTBENCHING == "TESTBENCHING"
TB_LINTING == "TB_LINTING"
SIMULATING == "SIMULATING"
ACCEPTING == "ACCEPTING"
DISTILLING == "DISTILLING"
REFLECTING == "REFLECTING"
DEBUGGING == "DEBUGGING"
DONE == "DONE"
FAILED == "FAILED"

NodeState == {PENDING, IMPLEMENTING, LINTING, TESTBENCHING, TB_LINTING, SIMULATING,
              ACCEPTING, DISTILLING, REFLECTING, DEBUGGING, DONE, FAILED}

Reasons == {"rtl_lint", "tb_lint", "sim"}
Kinds == {"impl", "lint", "tb", "tb_lint", "sim", "distill", "reflect", "debug", "acceptance"}

\* ------------------------------------------------------------ input graphs
\* The DAG file and the design context the orchestrator is constructed with.
AllNodes == {"A", "B", "C"}

ChainDag == [node_ids |-> {"A", "B", "C"},
             deps |-> [n \in AllNodes |-> IF n = "B" THEN {"A"} ELSE IF n = "C" THEN {"B"} ELSE {}],
             scopes |-> [n \in AllNodes |-> IF n = "B" THEN "module" ELSE "full"]]

ForkDag == [node_ids |-> {"A", "B", "C"},
            deps |-> [n \in AllNodes |-> IF n = "C" THEN {"A", "B"} ELSE {}],
            scopes |-> [n \in AllNodes |-> IF n = "C" THEN "full" ELSE "module"]]

SoloDag == [node_ids |-> {"A"},
            deps |-> [n \in AllNodes |-> {}],
            scopes |-> [n \in AllNodes |-> "full"]]

SoloModuleDag == [node_ids |-> {"A"},
                  deps |-> [n \in AllNodes |-> {}],
                  scopes |-> [n \in AllNodes |-> "module"]]

\* every node waits for another one: a dependency cycle, and a dependency on a
\* node the graph does not have
CycleDag == [node_ids |-> {"A", "B"},
             deps |-> [n \in AllNodes |-> IF n = "A" THEN {"B"} ELSE IF n = "B" THEN {"A"} ELSE {}],
             scopes |-> [n \in AllNodes |-> "full"]]

OrphanDag == [node_ids |-> {"A"},
              deps |-> [n \in AllNodes |-> IF n = "A" THEN {"B"} ELSE {}],
              scopes |-> [n \in AllNodes |-> "full"]]

VARIABLES
    node_ids,               \* self.nodes.keys()
    deps_map,               \* self.deps_map
    node_scopes,            \* self._node_scopes
    ctx_nodes,              \* the nodes the design context document describes
    state_callback,         \* self.state_callback: whether there is one, and the
                            \* (node, state) notifications on which it raises
    state,                  \* self.nodes[n].state
    tasks,                  \* tasks: node -> stage key -> task id
    pending_nodes,
    active_nodes,
    done_nodes,
    attempt_by_node,
    debug_attempts_by_node,
    tb_generated_by_node,
    post_lint_next_kind,
    pending_debug,
    task_memory,            \* TaskMemory: node -> stage key -> log written last
    published,              \* the task exchange: every TaskMessage published, by task id
    loop,                   \* where run() is: "init", "running", "exited", "error" (run
                            \* raised for want of roots), "crashed" (an exception left run)
    rtl,                    \* content of each node's RTL file
    tb,                     \* content of each node's testbench file
    replied,                \* task ids a worker has answered
    results,                \* the results queue
    processed_log,          \* results the control loop has taken from the queue, in order,
                            \* each with the number of tasks published before it was taken
                            \* and whether its task_id was found in the task maps
    issue_files,            \* per task id: the node's <<rtl, tb>> contents when it was published
    failures_left,
    redeliver_left,
    notified,               \* the calls of the state callback so far: <<node_id, new_state>>
    headers,                \* task id -> the retry count in the headers of its message, if any
    republished,            \* task id -> how often a worker published the message again
    rejected,               \* <<task id, why>>: messages a worker rejected without requeue
    sinks,                  \* EventEmitter.sinks: the kind of each sink, in list order
    emitted,                \* the events passed to EventEmitter.emit so far
    sink_calls,             \* per sink: the events its send was called with
    sink_lines,             \* per sink: the events it wrote down
    emit_raised,            \* whether a call of emit was left by an exception
    process_tasks,          \* the process_tasks queue: ids of the messages in it
    messages,               \* every message published to process_tasks, by id
    redelivered,            \* ids of the messages in the queue that were put back
    handled,                \* per message id: the workers whose handle_task ran on
                            \* it, and whether it had been put back before
    task_results,           \* how often a process worker published a result of a task
    debug_in,               \* the debug task a DebugWorker was given, and what the
                            \* LLM answers to each call made for it
    debug_out,              \* what handle_task did with it
    original,               \* a TaskMessage or ResultMessage to be sent
    wire,                   \* its JSON text, a sequence of characters
    decoded                 \* the message read back from the text

orch_vars == <<state, tasks, pending_nodes, active_nodes, done_nodes, attempt_by_node,
               debug_attempts_by_node, tb_generated_by_node, post_lint_next_kind,
               pending_debug, task_memory, published, notified>>
worker_vars == <<headers, republished, rejected>>
graph_vars == <<node_ids, deps_map, node_scopes, ctx_nodes, state_callback>>
file_vars == <<rtl, tb>>
log_vars == <<processed_log, issue_files>>
emit_vars == <<sinks, emitted, sink_calls, sink_lines, emit_raised>>
queue_vars == <<process_tasks, messages, redelivered, handled, task_results>>
debug_vars == <<debug_in, debug_out>>
codec_vars == <<original, wire, decoded>>
\* the state of the components that run beside the control loop
side_vars == <<emit_vars, queue_vars, debug_vars, codec_vars>>
\* the state of the control loop and of what it talks to
main_vars == <<graph_vars, orch_vars, loop, file_vars, replied, results, log_vars,
               failures_left, redeliver_left, worker_vars>>
vars == <<main_vars, side_vars>>

\* ----------------------------------------------------------------- helpers
EmptyMap == [k \in {} |-> 0]

Put(f, k, v) == [x \in DOMAIN f \cup {k} |-> IF x = k THEN v ELSE f[x]]

NoMeta == [present |-> FALSE, rtl_sha |-> NoFile, tb_sha |-> NoFile, from_attempt |-> None, reason |-> "none"]

\* The local state of run() as one value, so that the nested helpers compose.
Cur == [state |-> state, tasks |-> tasks, pending_nodes |-> pending_nodes,
        active_nodes |-> active_nodes, done_nodes |-> done_nodes,
        attempt_by_node |-> attempt_by_node,
        debug_attempts_by_node |-> debug_attempts_by_node,
        tb_generated_by_node |-> tb_generated_by_node,
        post_lint_next_kind |-> post_lint_next_kind,
        pending_debug |-> pending_debug, task_memory |-> task_memory,
        published |-> published, notified |-> notified,
        ctx |-> ctx_nodes, callback |-> state_callback, raised |-> FALSE]

\* A statement of a handler: it is not reached once an exception was raised.
Upd(o, new) == IF o.raised THEN o ELSE new

Raise(o) == [o EXCEPT !.raised = TRUE]

\* "no state callback" and a callback that never raises
NoCallback == [present |-> FALSE, fails |-> {}]
GoodCallback == [present |-> TRUE, fails |-> {}]

Install(o) ==
    /\ state' = o.state
    /\ tasks' = o.tasks
    /\ pending_nodes' = o.pending_nodes
    /\ active_nodes' = o.active_nodes
    /\ done_nodes' = o.done_nodes
    /\ attempt_by_node' = o.attempt_by_node
    /\ debug_attempts_by_node' = o.debug_attempts_by_node
    /\ tb_generated_by_node' = o.tb_generated_by_node
    /\ post_lint_next_kind' = o.post_lint_next_kind
    /\ pending_debug' = o.pending_debug
    /\ task_memory' = o.task_memory
    /\ published' = o.published
    /\ notified' = o.notified

\* _stage_key: f"{kind}_attempt{attempt}", or the bare kind
_stage_key(kind, attempt) ==
    IF attempt = None THEN <<kind>> ELSE <<kind, "_attempt", attempt>>

\* _parse_stage_key: (kind, attempt) of a stage key
_parse_stage_key(stage_key) ==
    IF Len(stage_key) = 1 THEN [kind |-> stage_key[1], attempt |-> None]
    ELSE [kind |-> stage_key[1], attempt |-> stage_key[3]]

\* _hash_file: "" for a missing file, else the digest of the content
_hash_file(content) == IF content = NoFile THEN NoFile ELSE content

_get_debug_attempts(o, node_id, reason) == o.debug_attempts_by_node[node_id][reason]

\* (variant) the counter is left as it was
_inc_debug_attempts_Skipped(o, node_id, reason) == o

\* (variant) the counter of the reason is raised for every node
_inc_debug_attempts_AllNodes(o, node_id, reason) ==
    Upd(o, [o EXCEPT !.debug_attempts_by_node =
                         [n \in AllNodes |-> [@[n] EXCEPT ![reason] = @ + 1]]])

_inc_debug_attempts(o, node_id, reason) ==
    Upd(o, [o EXCEPT !.debug_attempts_by_node[node_id][reason] =
                         _get_debug_attempts(o, node_id, reason) + 1])

\* (variant) the counter is not cleared
_reset_debug_attempts_Kept(o, node_id, reason) == o

_reset_debug_attempts(o, node_id, reason) ==
    Upd(o, [o EXCEPT !.debug_attempts_by_node[node_id][reason] = 0])

\* attempt_by_node.get(node_id, 1)
AttemptOf(o, node_id) ==
    IF o.attempt_by_node[node_id] = None THEN 1 ELSE o.attempt_by_node[node_id]

\* "stage_attempt or attempt_by_node.get(target_node, 1)"
AttemptOr(o, node_id, stage_attempt) ==
    IF stage_attempt # None THEN stage_attempt ELSE AttemptOf(o, node_id)

\* evaluates v once and hands the value to F
Bind(v, F(_)) == CHOOSE r \in {F(x) : x \in {v}} : TRUE

\* Node.transition
transition(o, node_id, new_state) ==
    Bind(o, LAMBDA x : Upd(x, [x EXCEPT !.state[node_id] = new_state]))

\* (variant) a finalization is not notified
_advance_QuietEnd(o, node_id, new_state) ==
    Bind(transition(o, node_id, new_state), LAMBDA o1 :
        Bind(IF o1.callback.present /\ new_state \notin {DONE, FAILED}
             THEN Upd(o1, [o1 EXCEPT !.notified = Append(@, <<node_id, new_state>>)])
             ELSE o1,
             LAMBDA o2 :
                IF o2.callback.present /\ <<node_id, new_state>> \in o2.callback.fails
                THEN Upd(o2, Raise(o2))
                ELSE o2))

\* _advance: the transition, then the state callback if there is one; an
\* exception of the callback leaves _advance.
_advance(o, node_id, new_state) ==
    Bind(transition(o, node_id, new_state), LAMBDA o1 :
        Bind(IF o1.callback.present
             THEN Upd(o1, [o1 EXCEPT !.notified = Append(@, <<node_id, new_state>>)])
             ELSE o1,
             LAMBDA o2 :
                IF o2.callback.present /\ <<node_id, new_state>> \in o2.callback.fails
                THEN Upd(o2, Raise(o2))
                ELSE o2))

\* DemoContextBuilder.build: KeyError for a node the design context lacks
BuildRaises(o, node_id) == node_id \notin o.ctx

\* _publish_task followed by tasks[node_id][stage_key] = task
_publish_task(o, node_id, kind, stage_key, attempt, reason) ==
    LET task == [node |-> node_id, kind |-> kind, attempt |-> attempt, reason |-> reason]
        id == Len(o.published) + 1
    IN IF BuildRaises(o, node_id) THEN Upd(o, Raise(o))
       ELSE Upd(o, [o EXCEPT !.published = Append(@, task),
                             !.tasks[node_id] = Put(@, stage_key, id)])

start_node(o, node_id) ==
    LET o1 == Upd(o, [o EXCEPT !.attempt_by_node[node_id] = 1,
                               !.debug_attempts_by_node[node_id] = [r \in Reasons |-> 0],
                               !.tb_generated_by_node[node_id] = FALSE])
        o2 == _advance(o1, node_id, IMPLEMENTING)
        \* tasks[node_id] = {"impl": impl_task}, once the task is published
        o3 == IF BuildRaises(o2, node_id) THEN o2
              ELSE Upd(o2, [o2 EXCEPT !.tasks[node_id] = EmptyMap])
        o4 == _publish_task(o3, node_id, "impl", <<"impl">>, None, "none")
    IN Upd(o4, [o4 EXCEPT !.pending_nodes = @ \ {node_id},
                          !.active_nodes = @ \cup {node_id}])

RECURSIVE StartEach(_, _)
StartEach(o, ready) ==
    IF ready = {} \/ o.raised THEN o
    ELSE LET n == CHOOSE x \in ready : TRUE
         IN StartEach(start_node(o, n), ready \ {n})

\* (variant) one finalized dependency is enough to start a node
start_ready_nodes_AnyDep(o, deps) ==
    StartEach(o, {n \in o.pending_nodes : deps[n] = {} \/ deps[n] \cap o.done_nodes # {}})

start_ready_nodes(o, deps) ==
    StartEach(o, {n \in o.pending_nodes : deps[n] \subseteq o.done_nodes})

RECURSIVE FailEach(_, _)
FailEach(o, blocked) ==
    IF blocked = {} \/ o.raised THEN o
    ELSE LET n == CHOOSE x \in blocked : TRUE
             o1 == _advance(o, n, FAILED)
         IN FailEach(Upd(o1, [o1 EXCEPT !.pending_nodes = @ \ {n}, !.done_nodes = @ \cup {n}]),
                     blocked \ {n})

RECURSIVE FailEachKept(_, _)
FailEachKept(o, blocked) ==
    IF blocked = {} \/ o.raised THEN o
    ELSE LET n == CHOOSE x \in blocked : TRUE
             o1 == _advance(o, n, FAILED)
         IN FailEachKept(Upd(o1, [o1 EXCEPT !.done_nodes = @ \cup {n}]), blocked \ {n})

\* (variant) a failed dependent is not taken out of pending_nodes
fail_dependents_KeptPending(o, deps, failed_node) ==
    FailEachKept(o, {n \in o.pending_nodes : failed_node \in deps[n]})

\* (variant) no dependent is failed
fail_dependents_Skipped(o, deps, failed_node) == o

fail_dependents(o, deps, failed_node) ==
    FailEach(o, {n \in o.pending_nodes : failed_node \in deps[n]})

_finish_failed(o, deps, node_id) ==
    LET o1 == _advance(o, node_id, FAILED)
        o2 == Upd(o1, [o1 EXCEPT !.active_nodes = @ \ {node_id}, !.done_nodes = @ \cup {node_id}])
    IN start_ready_nodes(fail_dependents(o2, deps, node_id), deps)

\* (variant) the node is not added to done_nodes
_finish_done_NotCounted(o, deps, node_id) ==
    LET o1 == _advance(o, node_id, DONE)
        o2 == Upd(o1, [o1 EXCEPT !.active_nodes = @ \ {node_id}])
    IN start_ready_nodes(o2, deps)

_finish_done(o, deps, node_id) ==
    LET o1 == _advance(o, node_id, DONE)
        o2 == Upd(o1, [o1 EXCEPT !.active_nodes = @ \ {node_id}, !.done_nodes = @ \cup {node_id}])
    IN start_ready_nodes(o2, deps)

\* (variant) the budget is spent one round early
RetryExhausted_OneEarly(o, node_id, reason) ==
    _get_debug_attempts(o, node_id, reason) >= max_debug_retries - 1

\* (variant) the budget test lets one more round through
RetryExhausted_OneLate(o, node_id, reason) ==
    _get_debug_attempts(o, node_id, reason) > max_debug_retries

\* ------------------------------------------------------- result dispatch
\* The debug hand-off of the lint, tb_lint and reflect branches: the retry
\* budget test, the hash snapshot, the counter and the DEBUG task.
RetryExhausted(o, node_id, reason) ==
    _get_debug_attempts(o, node_id, reason) >= max_debug_retries

IssueDebug(o, node_id, reason, attempt, rtl_now, tb_now) ==
    LET o0 == IF BuildRaises(o, node_id) THEN Upd(o, Raise(o)) ELSE o
        o1 == Upd(o0, [o0 EXCEPT !.pending_debug[node_id] =
                          [present |-> TRUE, rtl_sha |-> _hash_file(rtl_now),
                           tb_sha |-> _hash_file(tb_now), from_attempt |-> attempt,
                           reason |-> reason]])
        o2 == _inc_debug_attempts(o1, node_id, reason)
        o3 == _advance(o2, node_id, DEBUGGING)
    IN _publish_task(o3, node_id, "debug", _stage_key("debug", attempt), attempt, reason)

\* (variant) a simulation failure is handed to the debug stage at once
OnSimFailure_StraightToDebug(o, deps, n, stage_attempt) ==
    IF stage_attempt = None THEN _finish_failed(o, deps, n)
    ELSE IssueDebug(o, n, "sim", stage_attempt, NoFile, NoFile)

\* if kind == "lint" (failure)
OnLintFailure(o, deps, n, stage_attempt, rtl_now, tb_now) ==
    IF RetryExhausted(o, n, "rtl_lint") THEN _finish_failed(o, deps, n)
    ELSE IssueDebug(o, n, "rtl_lint", AttemptOr(o, n, stage_attempt), rtl_now, tb_now)

\* if kind == "sim" (failure)
OnSimFailure(o, deps, n, stage_attempt) ==
    IF stage_attempt = None THEN _finish_failed(o, deps, n)
    ELSE _publish_task(_advance(o, n, DISTILLING), n, "distill",
                       _stage_key("distill", stage_attempt), stage_attempt, "none")

\* if kind == "tb_lint" (failure)
OnTbLintFailure(o, deps, n, stage_attempt, rtl_now, tb_now) ==
    IF RetryExhausted(o, n, "tb_lint") THEN _finish_failed(o, deps, n)
    ELSE IssueDebug(o, n, "tb_lint", AttemptOr(o, n, stage_attempt), rtl_now, tb_now)

\* (variant) a failed acceptance is handed to the debug stage
OnFailure_AcceptanceRepaired(o, deps, n, kind, stage_attempt, rtl_now, tb_now) ==
    IF kind = "lint" THEN OnLintFailure(o, deps, n, stage_attempt, rtl_now, tb_now)
    ELSE IF kind = "sim" THEN OnSimFailure(o, deps, n, stage_attempt)
    ELSE IF kind = "tb_lint" THEN OnTbLintFailure(o, deps, n, stage_attempt, rtl_now, tb_now)
    ELSE IF kind = "acceptance"
    THEN IssueDebug(o, n, "sim", AttemptOr(o, n, stage_attempt), rtl_now, tb_now)
    ELSE _finish_failed(o, deps, n)

\* (variant) a failed debug round is tried again
OnFailure_DebugRetried(o, deps, n, kind, stage_attempt, rtl_now, tb_now) ==
    IF kind = "lint" THEN OnLintFailure(o, deps, n, stage_attempt, rtl_now, tb_now)
    ELSE IF kind = "sim" THEN OnSimFailure(o, deps, n, stage_attempt)
    ELSE IF kind = "tb_lint" THEN OnTbLintFailure(o, deps, n, stage_attempt, rtl_now, tb_now)
    ELSE IF kind = "debug" /\ ~RetryExhausted(o, n, o.pending_debug[n].reason)
    THEN IssueDebug(o, n, o.pending_debug[n].reason, AttemptOr(o, n, stage_attempt) + 1,
                    rtl_now, tb_now)
    ELSE _finish_failed(o, deps, n)

\* if result.status is not TaskStatus.SUCCESS
OnFailure(o, deps, n, kind, stage_attempt, rtl_now, tb_now) ==
    IF kind = "lint" THEN OnLintFailure(o, deps, n, stage_attempt, rtl_now, tb_now)
    ELSE IF kind = "sim" THEN OnSimFailure(o, deps, n, stage_attempt)
    ELSE IF kind = "tb_lint" THEN OnTbLintFailure(o, deps, n, stage_attempt, rtl_now, tb_now)
    ELSE _finish_failed(o, deps, n)

\* if kind == "impl"
OnImplSuccess(o, n) ==
    LET attempt == AttemptOf(o, n)
    IN _publish_task(_advance(o, n, LINTING), n, "lint", _stage_key("lint", attempt), attempt, "none")

\* elif kind == "lint"
OnLintSuccess(o, deps, scopes, n, stage_attempt) ==
    LET o1 == _reset_debug_attempts(o, n, "rtl_lint")
    IN IF scopes[n] # "full" THEN _finish_done(o1, deps, n)
       ELSE IF ~o1.tb_generated_by_node[n]
       THEN _publish_task(_advance(o1, n, TESTBENCHING), n, "tb", <<"tb">>, None, "none")
       ELSE LET next_kind == IF o1.post_lint_next_kind[n] = "none" THEN "sim"
                             ELSE o1.post_lint_next_kind[n]
                o2 == Upd(o1, [o1 EXCEPT !.post_lint_next_kind[n] = "none"])
                attempt == AttemptOr(o2, n, stage_attempt)
            IN IF next_kind = "tb_lint"
               THEN _publish_task(_advance(o2, n, TB_LINTING), n, "tb_lint",
                                  _stage_key("tb_lint", attempt), attempt, "none")
               ELSE _publish_task(_advance(o2, n, SIMULATING), n, "sim",
                                  _stage_key("sim", attempt), attempt, "none")

\* (variant) a generated testbench is simulated without being linted
OnTbSuccess_SkipsTbLint(o, n) ==
    LET o1 == Upd(o, [o EXCEPT !.tb_generated_by_node[n] = TRUE])
        attempt == AttemptOf(o1, n)
    IN _publish_task(_advance(o1, n, SIMULATING), n, "sim", _stage_key("sim", attempt), attempt, "none")

\* elif kind == "tb"
OnTbSuccess(o, n) ==
    LET o1 == Upd(o, [o EXCEPT !.tb_generated_by_node[n] = TRUE])
        attempt == AttemptOf(o1, n)
    IN _publish_task(_advance(o1, n, TB_LINTING), n, "tb_lint",
                     _stage_key("tb_lint", attempt), attempt, "none")

\* (variant) the simulation task is filed under the bare stage kind
OnTbLintSuccess_BareSimKey(o, n, stage_attempt) ==
    LET o1 == _reset_debug_attempts(o, n, "tb_lint")
    IN _publish_task(_advance(o1, n, SIMULATING), n, "sim", <<"sim">>, None, "none")

\* elif kind == "tb_lint"
OnTbLintSuccess(o, n, stage_attempt) ==
    LET o1 == _reset_debug_attempts(o, n, "tb_lint")
        attempt == AttemptOr(o1, n, stage_attempt)
    IN _publish_task(_advance(o1, n, SIMULATING), n, "sim", _stage_key("sim", attempt), attempt, "none")

\* elif kind == "sim"
OnSimSuccess(o, n, stage_attempt) ==
    LET o1 == _reset_debug_attempts(o, n, "sim")
        attempt == AttemptOr(o1, n, stage_attempt)
    IN _publish_task(_advance(o1, n, ACCEPTING), n, "acceptance",
                     _stage_key("acceptance", attempt), attempt, "none")

\* elif kind == "distill"
OnDistillSuccess(o, deps, n, stage_attempt) ==
    IF stage_attempt = None THEN _finish_failed(o, deps, n)
    ELSE _publish_task(_advance(o, n, REFLECTING), n, "reflect",
                       _stage_key("reflect", stage_attempt), stage_attempt, "none")

\* elif kind == "reflect"
OnReflectSuccess(o, deps, n, stage_attempt, rtl_now, tb_now) ==
    IF stage_attempt = None THEN _finish_failed(o, deps, n)
    ELSE IF RetryExhausted(o, n, "sim") THEN _finish_failed(o, deps, n)
    ELSE IssueDebug(o, n, "sim", stage_attempt, rtl_now, tb_now)

\* elif kind == "debug"
OnDebugSuccess(o, deps, n, rtl_now, tb_now) ==
    LET meta == o.pending_debug[n]
        o0 == Upd(o, [o EXCEPT !.pending_debug[n] = NoMeta])
    IN IF ~meta.present THEN _finish_failed(o0, deps, n)
       ELSE LET o1 == IF BuildRaises(o0, n) THEN Upd(o0, Raise(o0)) ELSE o0
                rtl_changed == meta.rtl_sha # _hash_file(rtl_now)
                tb_changed == meta.tb_sha # _hash_file(tb_now)
                next_attempt == meta.from_attempt + 1
                o2 == Upd(o1, [o1 EXCEPT !.attempt_by_node[n] = next_attempt])
            IN IF ~rtl_changed /\ ~tb_changed THEN _finish_failed(o2, deps, n)
               ELSE IF rtl_changed
               THEN LET o3 == _advance(o2, n, LINTING)
                        o4 == Upd(o3, [o3 EXCEPT !.post_lint_next_kind[n] =
                                          IF tb_changed THEN "tb_lint" ELSE "sim"])
                    IN _publish_task(o4, n, "lint", _stage_key("lint", next_attempt),
                                     next_attempt, "none")
               ELSE _publish_task(_advance(o2, n, TB_LINTING), n, "tb_lint",
                                  _stage_key("tb_lint", next_attempt), next_attempt, "none")

\* the SUCCESS path
OnSuccess(o, deps, scopes, n, kind, stage_attempt, rtl_now, tb_now) ==
    IF kind = "impl" THEN OnImplSuccess(o, n)
    ELSE IF kind = "lint" THEN OnLintSuccess(o, deps, scopes, n, stage_attempt)
    ELSE IF kind = "tb" THEN OnTbSuccess(o, n)
    ELSE IF kind = "tb_lint" THEN OnTbLintSuccess(o, n, stage_attempt)
    ELSE IF kind = "sim" THEN OnSimSuccess(o, n, stage_attempt)
    ELSE IF kind = "acceptance" THEN _finish_done(o, deps, n)
    ELSE IF kind = "distill" THEN OnDistillSuccess(o, deps, n, stage_attempt)
    ELSE IF kind = "reflect" THEN OnReflectSuccess(o, deps, n, stage_attempt, rtl_now, tb_now)
    ELSE IF kind = "debug" THEN OnDebugSuccess(o, deps, n, rtl_now, tb_now)
    ELSE o

\* TaskMemory.record_log
record_log(o, node_id, stage, content) ==
    Upd(o, [o EXCEPT !.task_memory[node_id] = Put(@, stage, content)])

\* (variant) a task_id found in no map is taken for any recorded task
Matches_Loose(o, task_id) ==
    LET exact == UNION {{<<n, key>> : key \in {k \in DOMAIN o.tasks[n] : o.tasks[n][k] = task_id}} :
                          n \in AllNodes}
    IN IF exact # {} THEN exact
       ELSE UNION {{<<n, key>> : key \in DOMAIN o.tasks[n]} : n \in AllNodes}

\* The scan of the outstanding-task maps for result.task_id
Matches(o, task_id) ==
    UNION {{<<n, key>> : key \in {k \in DOMAIN o.tasks[n] : o.tasks[n][k] = task_id}} : n \in AllNodes}

\* One pass of the loop body for a result that was taken from the queue.
HandleResult(o, deps, scopes, r, rtl_files, tb_files) ==
    IF Matches(o, r.task_id) = {} THEN o
    ELSE LET hit == CHOOSE p \in Matches(o, r.task_id) : TRUE
             target_node == hit[1]
             stage == hit[2]
             parsed == _parse_stage_key(stage)
             o1 == record_log(o, target_node, stage, <<r.task_id, r.status>>)
         IN IF r.status # SUCCESS
            THEN OnFailure(o1, deps, target_node, parsed.kind, parsed.attempt,
                           rtl_files[target_node], tb_files[target_node])
            ELSE OnSuccess(o1, deps, scopes, target_node, parsed.kind, parsed.attempt,
                           rtl_files[target_node], tb_files[target_node])

\* ------------------------------------------------------------------ workers
\* What a worker may answer to a task of a kind: a status and the text it
\* wrote to the RTL and the testbench file (NoFile: it did not write). The
\* debug worker returns SUCCESS only when its patch touched a file, and the text
\* it writes may equal the text that was there; a patch that fails on the
\* testbench has already rewritten the RTL.
WorkerOutcomes(kind) ==
    IF kind = "debug"
    THEN ({[status |-> SUCCESS, rtl |-> c, tb |-> d] :
               c \in Contents \cup {NoFile}, d \in Contents \cup {NoFile}}
            \ {[status |-> SUCCESS, rtl |-> NoFile, tb |-> NoFile]})
         \cup {[status |-> FAILURE, rtl |-> c, tb |-> NoFile] : c \in Contents \cup {NoFile}}
    ELSE IF kind = "impl"
    THEN {[status |-> SUCCESS, rtl |-> 1, tb |-> NoFile], [status |-> FAILURE, rtl |-> NoFile, tb |-> NoFile]}
    ELSE IF kind = "tb"
    THEN {[status |-> SUCCESS, rtl |-> NoFile, tb |-> 1], [status |-> FAILURE, rtl |-> NoFile, tb |-> NoFile]}
    ELSE {[status |-> SUCCESS, rtl |-> NoFile, tb |-> NoFile], [status |-> FAILURE, rtl |-> NoFile, tb |-> NoFile]}

\* The files of each newly published task's node at the time of publication.
IssueFiles(o) ==
    [i \in 1..Len(o.published) |->
        IF i <= Len(issue_files) THEN issue_files[i]
        ELSE <<rtl[o.published[i].node], tb[o.published[i].node]>>]

\* ------------------------------------------------------------------- actions
InitOrchestrator(dag, failures, redeliveries, ctx, callback) ==
    /\ node_ids = dag.node_ids
    /\ deps_map = dag.deps
    /\ node_scopes = dag.scopes
    /\ ctx_nodes = ctx
    /\ state_callback = callback
    /\ state = [n \in AllNodes |-> PENDING]
    /\ tasks = [n \in AllNodes |-> EmptyMap]
    /\ pending_nodes = dag.node_ids
    /\ active_nodes = {}
    /\ done_nodes = {}
    /\ attempt_by_node = [n \in AllNodes |-> None]
    /\ debug_attempts_by_node = [n \in AllNodes |-> [r \in Reasons |-> 0]]
    /\ tb_generated_by_node = [n \in AllNodes |-> FALSE]
    /\ post_lint_next_kind = [n \in AllNodes |-> "none"]
    /\ pending_debug = [n \in AllNodes |-> NoMeta]
    /\ task_memory = [n \in AllNodes |-> EmptyMap]
    /\ published = << >>
    /\ loop = "init"
    /\ rtl = [n \in AllNodes |-> NoFile]
    /\ tb = [n \in AllNodes |-> NoFile]
    /\ replied = {}
    /\ results = {}
    /\ processed_log = << >>
    /\ issue_files = << >>
    /\ failures_left = failures
    /\ redeliver_left = redeliveries
    /\ notified = << >>
    /\ headers = EmptyMap
    /\ republished = EmptyMap
    /\ rejected = {}

\* no sink is installed and nothing was emitted
EmitIdle ==
    /\ sinks = << >> /\ emitted = << >> /\ sink_calls = << >> /\ sink_lines = << >>
    /\ emit_raised = FALSE

\* nothing was published to process_tasks
QueueIdle ==
    /\ process_tasks = {} /\ messages = << >> /\ redelivered = {} /\ handled = << >>
    /\ task_results = << >>

\* no debug task was handed to a DebugWorker
DebugIdle == debug_in = None /\ debug_out = None

\* no message is being sent
CodecIdle == original = << >> /\ wire = << >> /\ decoded = << >>

\* the control loop alone
InitGraph(dag, failures, redeliveries, ctx, callback) ==
    /\ InitOrchestrator(dag, failures, redeliveries, ctx, callback)
    /\ EmitIdle /\ QueueIdle /\ DebugIdle /\ CodecIdle

\* the control loop before run() is called, for the components beside it
OrchestratorIdle == InitOrchestrator(SoloDag, 0, 0, SoloDag.node_ids, NoCallback)

\* The design context describes every node of the graph and no state callback
\* was given.
InitWith(dag, failures, redeliveries) ==
    InitGraph(dag, failures, redeliveries, dag.node_ids, NoCallback)

\* (variant) the loop is entered without the test for roots
Startup_NoCheck ==
    /\ loop = "init"
    /\ \E o \in {start_ready_nodes(Cur, deps_map)} :
          /\ Install(o)
          /\ issue_files' = IssueFiles(o)
          /\ loop' = IF o.raised THEN "crashed" ELSE "running"
    /\ UNCHANGED <<side_vars, graph_vars, file_vars, replied, results, processed_log,
                   failures_left, redeliver_left, worker_vars>>

\* run() up to the loop: start the roots, or raise when there is none.
Startup ==
    /\ loop = "init"
    /\ \E o \in {start_ready_nodes(Cur, deps_map)} :
          /\ Install(o)
          /\ issue_files' = IssueFiles(o)
          /\ loop' = IF o.raised THEN "crashed"
                      ELSE IF o.active_nodes = {} /\ o.pending_nodes # {} THEN "error"
                      ELSE "running"
    /\ UNCHANGED <<side_vars, graph_vars, file_vars, replied, results, processed_log,
                   failures_left, redeliver_left, worker_vars>>

\* the task messages that are in a task queue
InQueue == (1..Len(published)) \ (replied \cup {r[1] : r \in rejected})

\* A worker takes a published task, does its work on the files and publishes
\* the one ResultMessage of that task.
WorkerReply ==
    \E id \in InQueue :
      \E out \in WorkerOutcomes(published[id].kind) :
        LET n == published[id].node
        IN /\ out.status = FAILURE => failures_left > 0
           /\ failures_left' = IF out.status = FAILURE THEN failures_left - 1 ELSE failures_left
           /\ rtl' = IF out.rtl # NoFile THEN [rtl EXCEPT ![n] = out.rtl] ELSE rtl
           /\ tb' = IF out.tb # NoFile THEN [tb EXCEPT ![n] = out.tb] ELSE tb
           /\ replied' = replied \cup {id}
           /\ results' = results \cup {[task_id |-> id, status |-> out.status]}
           /\ UNCHANGED <<side_vars, graph_vars, orch_vars, loop, log_vars, redeliver_left, worker_vars>>

LoopCondition == loop = "running" /\ Cardinality(done_nodes) < Cardinality(node_ids)

\* One iteration of the while loop that gets a result from the queue.
ProcessResult ==
    \E r \in results :
        /\ LoopCondition
        /\ results' = results \ {r}
        /\ processed_log' = Append(processed_log,
               [task_id |-> r.task_id, status |-> r.status, seen |-> Len(published),
                matched |-> Matches(Cur, r.task_id) # {}])
        /\ \E o \in {HandleResult(Cur, deps_map, node_scopes, r, rtl, tb)} :
              /\ Install(o)
              /\ issue_files' = IssueFiles(o)
              /\ loop' = IF o.raised THEN "crashed" ELSE loop
        /\ UNCHANGED <<side_vars, graph_vars, file_vars, replied, failures_left, redeliver_left, worker_vars>>

\* A task is delivered to a worker again (its result was published, the
\* acknowledgement was lost), so a result that was already delivered is in the
\* queue a second time.
Redeliver ==
    \E i \in 1..Len(processed_log) :
        LET r == [task_id |-> processed_log[i].task_id, status |-> processed_log[i].status]
        IN /\ redeliver_left > 0
           /\ r \notin results
           /\ results' = results \cup {r}
           /\ redeliver_left' = redeliver_left - 1
           /\ UNCHANGED <<side_vars, graph_vars, orch_vars, loop, file_vars, replied, log_vars, failures_left,
                          worker_vars>>

\* The while condition fails because every node is in done_nodes.
LoopExit ==
    /\ loop = "running"
    /\ Cardinality(done_nodes) >= Cardinality(node_ids)
    /\ loop' = "exited"
    /\ UNCHANGED <<side_vars, graph_vars, orch_vars, file_vars, replied, results, log_vars,
                   failures_left, redeliver_left, worker_vars>>

\* The while condition fails because timeout_s has elapsed.
Timeout ==
    /\ LoopCondition
    /\ loop' = "exited"
    /\ UNCHANGED <<side_vars, graph_vars, orch_vars, file_vars, replied, results, log_vars,
                   failures_left, redeliver_left, worker_vars>>

\* At-least-once delivery of results, as the transport gives it; the run is
\* followed until MaxTasks tasks are published.
Dags == {ChainDag, SoloDag, SoloModuleDag}

Init == \E dag \in Dags : InitWith(dag, MaxFailures, MaxRedeliver)

BoundedProcessResult == Len(published) < MaxTasks /\ ProcessResult

Next ==
    \/ Startup
    \/ WorkerReply
    \/ BoundedProcessResult
    \/ Redeliver
    \/ LoopExit
    \/ Timeout

Spec == Init /\ [][Next]_vars

\* Every result is delivered once.
NextOnce == Startup \/ WorkerReply \/ ProcessResult \/ LoopExit \/ Timeout

\* A single node, with room for the repair loops.
InitDeep == \E dag \in {SoloDag, SoloModuleDag} : InitWith(dag, MaxDeepFailures, 0)

SpecDeep == InitDeep /\ [][NextOnce]_vars

\* No deadline: timeout_s <= 0 makes the deadline infinite. Every published
\* task is answered, the loop keeps polling the queue, and the graphs are
\* acyclic with every dependency a node of the graph.
InitLive ==
    \/ \E dag \in {ChainDag, ForkDag} : InitWith(dag, MaxLiveFailures, 0)
    \/ \E dag \in {SoloDag, SoloModuleDag} : InitWith(dag, MaxLiveFailures + max_debug_retries, 0)

NextLive == Startup \/ WorkerReply \/ ProcessResult \/ LoopExit

SpecLive ==
    /\ InitLive /\ [][NextLive]_vars
    /\ WF_vars(NextLive)

\* ------------------------------------------------- worker errors and retries
\* core.runtime.retry: the retry count a message carries in its headers (0
\* without the header), the headers of the re-published message, and the
\* maximum retry count
MAX_RETRIES == 2

get_retry_count(props) ==
    IF "retry_count" \in DOMAIN props THEN props["retry_count"] ELSE 0

next_retry_headers(props) == Put(props, "retry_count", get_retry_count(props) + 1)

\* the properties of the message of a task as it is in the queue now
PropsOf(id) == IF id \in DOMAIN headers THEN headers[id] ELSE EmptyMap

Republished(id) == IF id \in DOMAIN republished THEN republished[id] ELSE 0

\* the kinds whose handle_task raises TaskInputError when an upstream file (RTL,
\* testbench, simulation log) is missing, and the kind whose handle_task raises
\* RetryableError (the lint tool timed out)
InputErrorKinds == {"tb_lint", "sim", "distill"}
RetryableKinds == {"tb_lint"}

\* run(): except TaskInputError: basic_nack(requeue=False); continue
WorkerInputError ==
    \E id \in InQueue :
        /\ published[id].kind \in InputErrorKinds
        /\ rejected' = rejected \cup {<<id, "input">>}
        /\ UNCHANGED <<side_vars, graph_vars, orch_vars, loop, file_vars, replied, results, log_vars,
                       failures_left, redeliver_left, headers, republished>>

\* (variant) the retry count is compared with <= instead of <
WorkerRetryable_OneMore ==
    \E id \in InQueue :
        /\ published[id].kind \in RetryableKinds
        /\ IF get_retry_count(PropsOf(id)) <= MAX_RETRIES
           THEN /\ headers' = Put(headers, id, next_retry_headers(PropsOf(id)))
                /\ republished' = Put(republished, id, Republished(id) + 1)
                /\ rejected' = rejected
           ELSE /\ rejected' = rejected \cup {<<id, "retries">>}
                /\ UNCHANGED <<headers, republished>>
        /\ UNCHANGED <<side_vars, graph_vars, orch_vars, loop, file_vars, replied, results, log_vars,
                       failures_left, redeliver_left>>

\* run(): except RetryableError: publish the body again with the next retry
\* headers and acknowledge, or reject when the count has reached MAX_RETRIES
WorkerRetryable ==
    \E id \in InQueue :
        /\ published[id].kind \in RetryableKinds
        /\ IF get_retry_count(PropsOf(id)) < MAX_RETRIES
           THEN /\ headers' = Put(headers, id, next_retry_headers(PropsOf(id)))
                /\ republished' = Put(republished, id, Republished(id) + 1)
                /\ rejected' = rejected
           ELSE /\ rejected' = rejected \cup {<<id, "retries">>}
                /\ UNCHANGED <<headers, republished>>
        /\ UNCHANGED <<side_vars, graph_vars, orch_vars, loop, file_vars, replied, results, log_vars,
                       failures_left, redeliver_left>>

\* A single node whose workers may miss an upstream file or time out; every
\* result is delivered once.
MaxWorkerFailures == 1

InitWorkers == InitWith(SoloDag, MaxWorkerFailures, 0)

NextWorkers == NextOnce \/ WorkerInputError \/ WorkerRetryable

SpecWorkers == InitWorkers /\ [][NextWorkers]_vars

\* The same without a deadline, and no step that can be taken is put off forever.
NextWorkersLive == NextLive \/ WorkerInputError \/ WorkerRetryable

SpecWorkersLive ==
    /\ InitWorkers /\ [][NextWorkersLive]_vars
    /\ WF_vars(NextWorkersLive)

\* A result arrives whose task_id is the id of no task of this run (a stale
\* task of an earlier run, a foreign message on the results queue).
MaxStray == 1
MaxStrayFailures == 1
StrayId == 0

StrayTaken == Cardinality({j \in 1..Len(processed_log) : processed_log[j].task_id = StrayId})

StrayResult ==
    \E status \in {SUCCESS, FAILURE} :
        /\ StrayTaken + Cardinality({r \in results : r.task_id = StrayId}) < MaxStray
        /\ [task_id |-> StrayId, status |-> status] \notin results
        /\ results' = results \cup {[task_id |-> StrayId, status |-> status]}
        /\ UNCHANGED <<side_vars, graph_vars, orch_vars, loop, file_vars, replied, log_vars,
                       failures_left, redeliver_left, worker_vars>>

InitStray == \E dag \in {ChainDag, SoloDag} : InitWith(dag, MaxStrayFailures, 0)

NextStray == NextOnce \/ StrayResult

SpecStray == InitStray /\ [][NextStray]_vars

\* Two roots that run at the same time, and a node that waits for both; results
\* are delivered at least once.
MaxForkFailures == 2

InitFork == InitWith(ForkDag, MaxForkFailures, MaxRedeliver)

SpecFork == InitFork /\ [][Next]_vars

\* Graphs with and without roots; every result is delivered once.
MaxGraphFailures == 1

InitGraphs == \E dag \in {CycleDag, OrphanDag, ChainDag, SoloDag} : InitWith(dag, MaxGraphFailures, 0)

SpecGraphs == InitGraphs /\ [][NextOnce]_vars

\* Once-only delivery over every well-formed graph: the environment of the
\* statements made "when each result is delivered at most once".
MaxOnceFailures == 1

InitOnce == \E dag \in {ChainDag, ForkDag, SoloDag, SoloModuleDag} : InitWith(dag, MaxOnceFailures, 0)

SpecOnce == InitOnce /\ [][NextOnce]_vars

\* ------------------------------------------------------------ event emitter
\* core.observability.emitter and the sinks of adapters/observability. A sink
\* is an AgentOpsSink (a disabled placeholder: send returns at once), a
\* JsonlFileSink (send writes a line, json.dumps raises TypeError for a payload
\* that is not JSON-serialisable) or a JsonlFileSink whose file cannot be
\* opened (send raises OSError for every event).
MaxSinks == 3
MaxEmits == 2

SinkKinds == {"agentops", "jsonl", "unwritable"}

\* Event(runtime, event_type, payload): the type, and whether json.dumps
\* accepts the payload
Events == [event_type : {"task_published", "task_completed"}, serializable : BOOLEAN]

\* sink.send(event): whether it raises and whether it wrote the event down
send(kind, event) ==
    IF kind = "agentops" THEN [raised |-> FALSE, wrote |-> FALSE]
    ELSE IF ~event.serializable THEN [raised |-> TRUE, wrote |-> FALSE]
    ELSE IF kind = "unwritable" THEN [raised |-> TRUE, wrote |-> FALSE]
    ELSE [raised |-> FALSE, wrote |-> TRUE]

\* the call of sink i, as the emitter sees it
Called(st, i, event) ==
    [st EXCEPT !.calls[i] = Append(@, event),
               !.lines[i] = IF send(st.sinks[i], event).wrote THEN Append(@, event) ELSE @]

\* (variant) the loop over the sinks without the try/except
RECURSIVE EmitBare(_, _, _)
EmitBare(st, i, event) ==
    IF i > Len(st.sinks) THEN st
    ELSE IF send(st.sinks[i], event).raised THEN [Called(st, i, event) EXCEPT !.raised = TRUE]
    ELSE EmitBare(Called(st, i, event), i + 1, event)

emit_Unprotected(st, event) == EmitBare(st, 1, event)

\* for sink in self.sinks: try: sink.send(event) except Exception: continue
RECURSIVE EmitFrom(_, _, _)
EmitFrom(st, i, event) ==
    IF i > Len(st.sinks) THEN st
    ELSE IF send(st.sinks[i], event).raised THEN EmitFrom(Called(st, i, event), i + 1, event)
    ELSE EmitFrom(Called(st, i, event), i + 1, event)

\* EventEmitter.emit
emit(st, event) == EmitFrom(st, 1, event)

\* set_global_sinks(sinks)
InitEmit ==
    /\ OrchestratorIdle /\ QueueIdle /\ DebugIdle /\ CodecIdle
    /\ \E n \in 0..MaxSinks : sinks \in [1..n -> SinkKinds]
    /\ emitted = << >>
    /\ sink_calls = [i \in 1..Len(sinks) |-> << >>]
    /\ sink_lines = [i \in 1..Len(sinks) |-> << >>]
    /\ emit_raised = FALSE

\* emit_runtime_event(runtime, event_type, payload)
Emit ==
    /\ Len(emitted) < MaxEmits
    /\ ~emit_raised
    /\ \E event \in Events :
          \E st \in {emit([sinks |-> sinks, calls |-> sink_calls, lines |-> sink_lines,
                           raised |-> FALSE], event)} :
              /\ emitted' = Append(emitted, event)
              /\ sink_calls' = st.calls
              /\ sink_lines' = st.lines
              /\ emit_raised' = st.raised
    /\ UNCHANGED <<main_vars, sinks, queue_vars, debug_vars, codec_vars>>

SpecEmit == InitEmit /\ [][Emit]_vars

\* -------------------------------------------------------------- debug worker
\* agents/debug/worker.py: handle_task asks the LLM up to DEBUG_MAX_ATTEMPTS
\* times for a patch. What one call gives back: an exception of the gateway
\* ("error"), text that is not JSON ("text"), JSON that is empty or null
\* ("empty": `if parsed` is false), JSON that is not an object ("list"), or an
\* object with its touched_files and whether rtl_lines / tb_lines are
\* non-empty lists.
MaxDebugAttempts == 3

Files == {"rtl", "tb"}

Responses ==
    {[kind |-> k, touched |-> {}, rtl_lines |-> FALSE, tb_lines |-> FALSE] :
         k \in {"error", "text", "empty", "list"}}
    \cup {r \in [kind : {"dict"}, touched : SUBSET Files, rtl_lines : BOOLEAN, tb_lines : BOOLEAN] :
             /\ "rtl" \notin r.touched => ~r.rtl_lines
             /\ "tb" \notin r.touched => ~r.tb_lines}

\* _safe_json followed by `if parsed`
Parsed(resp) == resp.kind \in {"list", "dict"}

\* _apply_debug_patch: payload.get fails on JSON that is not an object; the
\* RTL is written before the testbench lines are looked at
_apply_debug_patch(resp) ==
    IF resp.kind # "dict" THEN [raised |-> TRUE, wrote |-> {}, touched_files |-> {}]
    ELSE IF "rtl" \in resp.touched /\ ~resp.rtl_lines
    THEN [raised |-> TRUE, wrote |-> {}, touched_files |-> {}]
    ELSE IF "tb" \in resp.touched /\ ~resp.tb_lines
    THEN [raised |-> TRUE, wrote |-> resp.touched \ {"tb"}, touched_files |-> {}]
    ELSE [raised |-> FALSE, wrote |-> resp.touched, touched_files |-> resp.touched]

\* the ResultMessage of handle_task and what the task cost
Returned(status, calls, wrote) ==
    [raised |-> FALSE, results |-> <<status>>, calls |-> calls, wrote |-> wrote]

\* handle_task has not returned
NoOutput == [raised |-> FALSE, results |-> << >>, calls |-> 0, wrote |-> {}]

\* (variant) a patch that touched no file counts as a fix
RECURSIVE AttemptLoose(_, _, _)
AttemptLoose(task, llm_attempt, wrote) ==
    IF llm_attempt > task.max_attempts THEN Returned(FAILURE, llm_attempt - 1, wrote)
    ELSE LET resp == task.responses[llm_attempt]
             write_result == _apply_debug_patch(resp)
         IN IF resp.kind = "error" \/ ~Parsed(resp)
            THEN IF llm_attempt < task.max_attempts
                 THEN AttemptLoose(task, llm_attempt + 1, wrote)
                 ELSE Returned(FAILURE, llm_attempt, wrote)
            ELSE IF write_result.raised
            THEN IF llm_attempt < task.max_attempts
                 THEN AttemptLoose(task, llm_attempt + 1, wrote \cup write_result.wrote)
                 ELSE Returned(FAILURE, llm_attempt, wrote \cup write_result.wrote)
            ELSE Returned(SUCCESS, llm_attempt, wrote \cup write_result.wrote)

handle_task_AcceptsEmptyPatch(task) ==
    IF ~task.gateway THEN Returned(FAILURE, 0, {})
    ELSE IF ~task.ctx.node_id \/ ~task.ctx.rtl_path
    THEN [raised |-> TRUE, results |-> << >>, calls |-> 0, wrote |-> {}]
    ELSE AttemptLoose(task, 1, {})

\* for llm_attempt in range(1, max_attempts + 1), and the return after it
RECURSIVE Attempt(_, _, _)
Attempt(task, llm_attempt, wrote) ==
    IF llm_attempt > task.max_attempts THEN Returned(FAILURE, llm_attempt - 1, wrote)
    ELSE LET resp == task.responses[llm_attempt]
             write_result == _apply_debug_patch(resp)
         IN IF resp.kind = "error" \/ ~Parsed(resp)
            THEN IF llm_attempt < task.max_attempts
                 THEN Attempt(task, llm_attempt + 1, wrote)
                 ELSE Returned(FAILURE, llm_attempt, wrote)
            ELSE IF write_result.raised \/ write_result.touched_files = {}
            THEN IF llm_attempt < task.max_attempts
                 THEN Attempt(task, llm_attempt + 1, wrote \cup write_result.wrote)
                 ELSE Returned(FAILURE, llm_attempt, wrote \cup write_result.wrote)
            ELSE Returned(SUCCESS, llm_attempt, wrote \cup write_result.wrote)

\* DebugWorker.handle_task
handle_task(task) ==
    IF ~task.gateway THEN Returned(FAILURE, 0, {})
    ELSE IF ~task.ctx.node_id \/ ~task.ctx.rtl_path
    THEN [raised |-> TRUE, results |-> << >>, calls |-> 0, wrote |-> {}]
    ELSE Attempt(task, 1, {})

\* the context of a debug task as _publish_task builds it: DemoContextBuilder
\* always puts node_id and rtl_path in
DebugContext == [node_id |-> TRUE, rtl_path |-> TRUE]

\* A debug task reaches a worker whose gateway is or is not configured, with
\* DEBUG_MAX_ATTEMPTS set to some number.
InitDebug ==
    /\ OrchestratorIdle /\ EmitIdle /\ QueueIdle /\ CodecIdle
    /\ \E g \in BOOLEAN, n \in 0..MaxDebugAttempts :
          \E rs \in [1..n -> Responses] :
              debug_in = [gateway |-> g, ctx |-> DebugContext, max_attempts |-> n,
                          responses |-> rs]
    /\ debug_out = NoOutput

HandleDebugTask ==
    /\ debug_out = NoOutput
    /\ debug_out' = handle_task(debug_in)
    /\ UNCHANGED <<main_vars, emit_vars, queue_vars, debug_in, codec_vars>>

SpecDebug == InitDebug /\ [][HandleDebugTask]_vars

\* ----------------------------------------------- the shared process_tasks queue
\* Three workers consume process_tasks: each run() compares task.task_type.value
\* with its own name
ProcessWorkers == {"DistillationWorker", "AcceptanceWorker", "TestbenchLinterWorker"}

\* the original tasks the orchestrator publishes to the queue
MaxProcessTasks == 2

\* the workers whose handle_task raises TaskInputError for a task built by
\* _publish_task (a file is missing), and the one that raises RetryableError
\* (the tool timed out)
InputErrorTypes == {"TestbenchLinterWorker", "DistillationWorker"}
RetryableTypes == {"TestbenchLinterWorker"}

\* what handle_task of a worker comes to: a result, or an exception
Outcomes(w) ==
    {"SUCCESS", "FAILURE"}
        \cup (IF w \in InputErrorTypes THEN {"TaskInputError"} ELSE {})
        \cup (IF w \in RetryableTypes THEN {"RetryableError"} ELSE {})

\* a message is known by its task and its retry count
MessageId(msg) == <<msg.task_id, get_retry_count(msg.props)>>

Originals == {id \in DOMAIN messages : id[2] = 0}

InitShared ==
    /\ OrchestratorIdle /\ EmitIdle /\ DebugIdle /\ CodecIdle
    /\ QueueIdle

\* basic_publish: the message is in the queue, not yet handled
Published(msg) ==
    /\ messages' = Put(messages, MessageId(msg), msg)
    /\ handled' = Put(handled, MessageId(msg), << >>)

\* basic_ack, basic_nack(requeue=False) after handle_task of worker w ran
Settled(id, w) ==
    [x \in DOMAIN handled |->
        IF x = id THEN Append(handled[x], [by |-> w, redelivered |-> id \in redelivered])
        ELSE handled[x]]

\* _publish_task: a task of entity type LIGHT_DETERMINISTIC goes to process_tasks
PublishProcessTask ==
    /\ Cardinality(Originals) < MaxProcessTasks
    /\ \E t \in ProcessWorkers :
          \E msg \in {[task_id |-> Cardinality(Originals) + 1, task_type |-> t,
                       props |-> EmptyMap]} :
              /\ Published(msg)
              /\ process_tasks' = process_tasks \cup {MessageId(msg)}
    /\ UNCHANGED <<main_vars, emit_vars, debug_vars, codec_vars, redelivered, task_results>>

\* (variant) a task of another type is rejected without requeue
Requeue_Dropped(w) ==
    \E id \in process_tasks :
        /\ messages[id].task_type # w
        /\ process_tasks' = process_tasks \ {id}
        /\ redelivered' = redelivered \ {id}
        /\ UNCHANGED <<main_vars, emit_vars, debug_vars, codec_vars, messages, handled,
                       task_results>>

\* run(): if task.task_type.value != <own name>: basic_nack(requeue=True); continue
Requeue(w) ==
    \E id \in process_tasks :
        /\ messages[id].task_type # w
        /\ redelivered' = redelivered \cup {id}
        /\ UNCHANGED <<main_vars, emit_vars, debug_vars, codec_vars, process_tasks, messages,
                       handled, task_results>>

\* run(): a task of the worker's own type: handle_task, then publish the result
\* and acknowledge; TaskInputError: reject without requeue; RetryableError:
\* publish the body again with the next retry headers and acknowledge, or reject
\* when the count has reached MAX_RETRIES
Handle(w) ==
    \E id \in process_tasks :
        /\ messages[id].task_type = w
        /\ redelivered' = redelivered \ {id}
        /\ \E outcome \in Outcomes(w) :
              CASE outcome \in {"SUCCESS", "FAILURE"} ->
                     \E result \in {[task_id |-> messages[id].task_id, by |-> w]} :
                         /\ task_results' = Put(task_results, result,
                                IF result \in DOMAIN task_results
                                THEN task_results[result] + 1 ELSE 1)
                         /\ process_tasks' = process_tasks \ {id}
                         /\ handled' = Settled(id, w)
                         /\ UNCHANGED messages
                [] outcome = "TaskInputError" ->
                     /\ process_tasks' = process_tasks \ {id}
                     /\ handled' = Settled(id, w)
                     /\ UNCHANGED <<messages, task_results>>
                [] outcome = "RetryableError" ->
                     IF get_retry_count(messages[id].props) < MAX_RETRIES
                     THEN \E msg \in {[messages[id] EXCEPT !.props = next_retry_headers(@)]} :
                              /\ messages' = Put(messages, MessageId(msg), msg)
                              /\ handled' = Put(Settled(id, w), MessageId(msg), << >>)
                              /\ process_tasks' = (process_tasks \ {id}) \cup {MessageId(msg)}
                              /\ UNCHANGED task_results
                     ELSE /\ process_tasks' = process_tasks \ {id}
                          /\ handled' = Settled(id, w)
                          /\ UNCHANGED <<messages, task_results>>
        /\ UNCHANGED <<main_vars, emit_vars, debug_vars, codec_vars>>

NextShared ==
    \/ PublishProcessTask
    \/ \E w \in ProcessWorkers : Requeue(w)
    \/ \E w \in ProcessWorkers : Handle(w)

\* The three workers run, and the broker hands each of them every message that
\* stays in the queue.
SpecShared ==
    /\ InitShared /\ [][NextShared]_vars
    /\ \A w \in ProcessWorkers : WF_vars(Handle(w))

\* --------------------------------------------------- messages and their JSON
\* A JSON value is a node: its kind t, its text s (a string's characters), its
\* number n (an integer, or 1/0 for true/false), its items (the elements of a
\* list, the members of a map in order), and its key k when it is the member of
\* a map. A character is a one-character string; a longer string stands for a
\* run of ordinary characters (a field name, an enum value).
MaxStrLen == 1
MaxItems == 2

Quote == "\""
Backslash == "\\"
Chars == {"a", Quote, Backslash}

JNull == [t |-> "null", k |-> << >>, s |-> << >>, n |-> 0, items |-> << >>]
JBool(b) == [t |-> "bool", k |-> << >>, s |-> << >>, n |-> IF b THEN 1 ELSE 0, items |-> << >>]
JInt(i) == [t |-> "int", k |-> << >>, s |-> << >>, n |-> i, items |-> << >>]
JStr(str) == [t |-> "str", k |-> << >>, s |-> str, n |-> 0, items |-> << >>]
JList(xs) == [t |-> "list", k |-> << >>, s |-> << >>, n |-> 0, items |-> xs]
JMap(ms) == [t |-> "map", k |-> << >>, s |-> << >>, n |-> 0, items |-> ms]
Member(key, v) == [v EXCEPT !.k = key]

SeqsUpTo(S, n) == UNION {[1..m -> S] : m \in 0..n}

\* model_dump_json: the compact JSON text of a value
Digits == <<"0", "1", "2", "3", "4", "5", "6", "7", "8", "9">>

RECURSIVE NatText(_)
NatText(i) == IF i < 10 THEN <<Digits[i + 1]>> ELSE NatText(i \div 10) \o <<Digits[(i % 10) + 1]>>

IntText(i) == IF i < 0 THEN <<"-">> \o NatText(0 - i) ELSE NatText(i)

RECURSIVE Escaped(_)
Escaped(str) ==
    IF str = << >> THEN << >>
    ELSE (IF Head(str) \in {Quote, Backslash} THEN <<Backslash, Head(str)>> ELSE <<Head(str)>>)
            \o Escaped(Tail(str))

\* (variant) the characters of a string are written as they are
StrText_Raw(str) == <<Quote>> \o str \o <<Quote>>

\* a string in quotes, with a backslash before each quote and backslash
StrText(str) == <<Quote>> \o Escaped(str) \o <<Quote>>

RECURSIVE dump(_)
RECURSIVE dump_items(_, _)
dump_items(xs, keyed) ==
    IF xs = << >> THEN << >>
    ELSE (IF keyed THEN StrText(Head(xs).k) \o <<":">> ELSE << >>)
            \o dump(Head(xs))
            \o (IF Len(xs) > 1 THEN <<",">> ELSE << >>)
            \o dump_items(Tail(xs), keyed)

dump(v) ==
    CASE v.t = "null" -> <<"n", "u", "l", "l">>
      [] v.t = "bool" -> IF v.n = 1 THEN <<"t", "r", "u", "e">> ELSE <<"f", "a", "l", "s", "e">>
      [] v.t = "int" -> IntText(v.n)
      [] v.t = "str" -> StrText(v.s)
      [] v.t = "list" -> <<"[">> \o dump_items(v.items, FALSE) \o <<"]">>
      [] v.t = "map" -> <<"{">> \o dump_items(v.items, TRUE) \o <<"}">>

\* json parsing: the value that starts at position p of the text and the
\* position after it, or ok = FALSE
Bad == [ok |-> FALSE, v |-> JNull, p |-> 0]
Good(v, p) == [ok |-> TRUE, v |-> v, p |-> p]

At(text, p) == IF p <= Len(text) THEN text[p] ELSE ""

Starts(text, p, word) ==
    /\ p + Len(word) - 1 <= Len(text)
    /\ \A i \in 1..Len(word) : text[p + i - 1] = word[i]

DigitChars == {Digits[i] : i \in 1..10}
DigitVal(c) == (CHOOSE i \in 1..10 : Digits[i] = c) - 1

RECURSIVE parse_nat(_, _, _)
parse_nat(text, p, acc) ==
    IF At(text, p) \in DigitChars
    THEN parse_nat(text, p + 1, acc * 10 + DigitVal(text[p]))
    ELSE [n |-> acc, p |-> p]

parse_int(text, p) ==
    IF At(text, p) = "-"
    THEN IF At(text, p + 1) \in DigitChars
         THEN Bind(parse_nat(text, p + 1, 0), LAMBDA r : Good(JInt(0 - r.n), r.p))
         ELSE Bad
    ELSE Bind(parse_nat(text, p, 0), LAMBDA r : Good(JInt(r.n), r.p))

\* the characters of a string from position p (after the opening quote) to the
\* closing quote
RECURSIVE parse_chars(_, _, _)
parse_chars(text, p, acc) ==
    CASE p > Len(text) -> Bad
      [] text[p] = Quote -> Good(JStr(acc), p + 1)
      [] text[p] = Backslash ->
            IF At(text, p + 1) \in {Quote, Backslash}
            THEN parse_chars(text, p + 2, Append(acc, text[p + 1]))
            ELSE Bad
      [] OTHER -> parse_chars(text, p + 1, Append(acc, text[p]))

RECURSIVE parse_value(_, _)
RECURSIVE parse_elements(_, _, _)
RECURSIVE parse_members(_, _, _)

\* the elements of a list from position p to the closing bracket
parse_elements(text, p, acc) ==
    Bind(parse_value(text, p), LAMBDA r :
        IF ~r.ok THEN Bad
        ELSE CASE At(text, r.p) = "," -> parse_elements(text, r.p + 1, Append(acc, r.v))
               [] At(text, r.p) = "]" -> Good(JList(Append(acc, r.v)), r.p + 1)
               [] OTHER -> Bad)

\* the members of a map from position p to the closing brace
parse_members(text, p, acc) ==
    IF At(text, p) # Quote THEN Bad
    ELSE Bind(parse_chars(text, p + 1, << >>), LAMBDA key :
            IF ~key.ok \/ At(text, key.p) # ":" THEN Bad
            ELSE Bind(parse_value(text, key.p + 1), LAMBDA r :
                    IF ~r.ok THEN Bad
                    ELSE CASE At(text, r.p) = "," ->
                                 parse_members(text, r.p + 1, Append(acc, Member(key.v.s, r.v)))
                           [] At(text, r.p) = "}" ->
                                 Good(JMap(Append(acc, Member(key.v.s, r.v))), r.p + 1)
                           [] OTHER -> Bad))

parse_value(text, p) ==
    CASE Starts(text, p, <<"n", "u", "l", "l">>) -> Good(JNull, p + 4)
      [] Starts(text, p, <<"t", "r", "u", "e">>) -> Good(JBool(TRUE), p + 4)
      [] Starts(text, p, <<"f", "a", "l", "s", "e">>) -> Good(JBool(FALSE), p + 5)
      [] At(text, p) \in DigitChars \cup {"-"} -> parse_int(text, p)
      [] At(text, p) = Quote -> parse_chars(text, p + 1, << >>)
      [] At(text, p) = "[" ->
            IF At(text, p + 1) = "]" THEN Good(JList(<< >>), p + 2)
            ELSE parse_elements(text, p + 1, << >>)
      [] At(text, p) = "{" ->
            IF At(text, p + 1) = "}" THEN Good(JMap(<< >>), p + 2)
            ELSE parse_members(text, p + 1, << >>)
      [] OTHER -> Bad

\* json.loads: the whole text is one value
loads(text) ==
    Bind(parse_value(text, 1), LAMBDA r : IF r.ok /\ r.p = Len(text) + 1 THEN r ELSE Bad)

\* str(uuid) and UUID(text): an id is written as its hexadecimal digits
Hex == <<"0", "1", "2", "3", "4", "5", "6", "7", "8", "9", "a", "b", "c", "d", "e", "f">>
HexChars == {Hex[i] : i \in 1..16}
HexVal(c) == (CHOOSE i \in 1..16 : Hex[i] = c) - 1
UUIDs == {0, 10, 255}

uuid_text(u) == <<Hex[(u \div 16) + 1], Hex[(u % 16) + 1]>>
uuid_valid(str) == Len(str) = 2 /\ \A i \in 1..2 : str[i] \in HexChars
uuid_parse(str) == HexVal(str[1]) * 16 + HexVal(str[2])

\* datetime.isoformat and its parsing: the seconds in two digits, and the
\* microseconds in six digits after a point when they are not zero; a shorter
\* fraction is read as tenths, hundredths, ...
Minute == "2024-01-01T12:00:"
Timestamps == [sec : {0, 59}, us : {0, 5, 123456}]

RECURSIVE Padded(_, _)
Padded(text, width) == IF Len(text) >= width THEN text ELSE Padded(<<"0">> \o text, width)

RECURSIVE Pow10(_)
Pow10(e) == IF e = 0 THEN 1 ELSE 10 * Pow10(e - 1)

iso_text(ts) ==
    <<Minute>> \o Padded(NatText(ts.sec), 2)
        \o (IF ts.us = 0 THEN << >> ELSE <<".">> \o Padded(NatText(ts.us), 6))

iso_valid(str) ==
    /\ Len(str) \in {3} \cup 5..10
    /\ str[1] = Minute
    /\ str[2] \in DigitChars /\ str[3] \in DigitChars
    /\ Len(str) > 3 => str[4] = "." /\ \A i \in 5..Len(str) : str[i] \in DigitChars

iso_parse(str) ==
    [sec |-> DigitVal(str[2]) * 10 + DigitVal(str[3]),
     us |-> IF Len(str) = 3 THEN 0
            ELSE parse_nat(str, 5, 0).n * Pow10(6 - (Len(str) - 4))]

\* the values of the enumerations, as the tests state them
EntityTypes == {"REASONING", "LIGHT_DETERMINISTIC", "HEAVY_DETERMINISTIC"}
TaskTypes == {"PlannerAgent", "LinterWorker", "DistillationWorker"}
TaskStatuses == {"SUCCESS", "FAILURE"}
TaskPriorities == {1, 3}

\* an optional field: no element for None, one element for a value
Optional(S) == {<< >>} \cup {<<x>> : x \in S}

\* the JSON value of a message: every field under its name, an id, a timestamp
\* and a string enumeration as a string, None as null
JOptStr(opt) == IF opt = << >> THEN JNull ELSE JStr(opt[1])

JMetrics(opt) ==
    IF opt = << >> THEN JNull
    ELSE JMap(<<Member(<<"input_tokens">>, JInt(opt[1].input_tokens)),
                Member(<<"output_tokens">>, JInt(opt[1].output_tokens))>>)

model_dump(msg) ==
    IF msg.cls = "TaskMessage"
    THEN JMap(<<Member(<<"task_id">>, JStr(uuid_text(msg.task_id))),
                Member(<<"correlation_id">>, JStr(uuid_text(msg.correlation_id))),
                Member(<<"created_at">>, JStr(iso_text(msg.created_at))),
                Member(<<"priority">>, JInt(msg.priority)),
                Member(<<"entity_type">>, JStr(<<msg.entity_type>>)),
                Member(<<"task_type">>, JStr(<<msg.task_type>>)),
                Member(<<"context">>, msg.context)>>)
    ELSE JMap(<<Member(<<"task_id">>, JStr(uuid_text(msg.task_id))),
                Member(<<"correlation_id">>, JStr(uuid_text(msg.correlation_id))),
                Member(<<"completed_at">>, JStr(iso_text(msg.completed_at))),
                Member(<<"status">>, JStr(<<msg.status>>)),
                Member(<<"artifacts_path">>, JOptStr(msg.artifacts_path)),
                Member(<<"log_output">>, JStr(msg.log_output)),
                Member(<<"reflections">>, JOptStr(msg.reflections)),
                Member(<<"metrics">>, JMetrics(msg.metrics))>>)

model_dump_json(msg) == dump(model_dump(msg))

\* validation: the member of a map under a name (null when there is none),
\* and the checks of each field's type
Field(node, key) ==
    IF \E i \in 1..Len(node.items) : node.items[i].k = key
    THEN Member(<< >>, node.items[CHOOSE i \in 1..Len(node.items) : node.items[i].k = key])
    ELSE JNull

IsUuid(v) == v.t = "str" /\ uuid_valid(v.s)
IsTimestamp(v) == v.t = "str" /\ iso_valid(v.s)
IsEnum(v, values) == v.t = "str" /\ Len(v.s) = 1 /\ v.s[1] \in values
IsOptStr(v) == v.t \in {"null", "str"}
IsMetrics(v) ==
    \/ v.t = "null"
    \/ /\ v.t = "map"
       /\ Field(v, <<"input_tokens">>).t = "int"
       /\ Field(v, <<"output_tokens">>).t = "int"

OptStr(v) == IF v.t = "null" THEN << >> ELSE <<v.s>>

Metrics(v) ==
    IF v.t = "null" THEN << >>
    ELSE <<[input_tokens |-> Field(v, <<"input_tokens">>).n,
            output_tokens |-> Field(v, <<"output_tokens">>).n]>>

ValidationError == <<"ValidationError">>

validate_task(node) ==
    IF /\ node.t = "map"
       /\ IsUuid(Field(node, <<"task_id">>))
       /\ IsUuid(Field(node, <<"correlation_id">>))
       /\ IsTimestamp(Field(node, <<"created_at">>))
       /\ Field(node, <<"priority">>).t = "int"
       /\ Field(node, <<"priority">>).n \in TaskPriorities
       /\ IsEnum(Field(node, <<"entity_type">>), EntityTypes)
       /\ IsEnum(Field(node, <<"task_type">>), TaskTypes)
       /\ Field(node, <<"context">>).t = "map"
    THEN <<"ok", [cls |-> "TaskMessage",
                  task_id |-> uuid_parse(Field(node, <<"task_id">>).s),
                  correlation_id |-> uuid_parse(Field(node, <<"correlation_id">>).s),
                  created_at |-> iso_parse(Field(node, <<"created_at">>).s),
                  priority |-> Field(node, <<"priority">>).n,
                  entity_type |-> Field(node, <<"entity_type">>).s[1],
                  task_type |-> Field(node, <<"task_type">>).s[1],
                  context |-> Field(node, <<"context">>)]>>
    ELSE ValidationError

validate_result(node) ==
    IF /\ node.t = "map"
       /\ IsUuid(Field(node, <<"task_id">>))
       /\ IsUuid(Field(node, <<"correlation_id">>))
       /\ IsTimestamp(Field(node, <<"completed_at">>))
       /\ IsEnum(Field(node, <<"status">>), TaskStatuses)
       /\ IsOptStr(Field(node, <<"artifacts_path">>))
       /\ Field(node, <<"log_output">>).t = "str"
       /\ IsOptStr(Field(node, <<"reflections">>))
       /\ IsMetrics(Field(node, <<"metrics">>))
    THEN <<"ok", [cls |-> "ResultMessage",
                  task_id |-> uuid_parse(Field(node, <<"task_id">>).s),
                  correlation_id |-> uuid_parse(Field(node, <<"correlation_id">>).s),
                  completed_at |-> iso_parse(Field(node, <<"completed_at">>).s),
                  status |-> Field(node, <<"status">>).s[1],
                  artifacts_path |-> OptStr(Field(node, <<"artifacts_path">>)),
                  log_output |-> Field(node, <<"log_output">>).s,
                  reflections |-> OptStr(Field(node, <<"reflections">>)),
                  metrics |-> Metrics(Field(node, <<"metrics">>))]>>
    ELSE ValidationError

model_validate_json(cls, text) ==
    Bind(loads(text), LAMBDA r :
        IF ~r.ok THEN ValidationError
        ELSE IF cls = "TaskMessage" THEN validate_task(r.v) ELSE validate_result(r.v))

\* the messages sent: every context with the other fields fixed, and every
\* choice of the other fields
Strings == SeqsUpTo(Chars, MaxStrLen)
Ints == {0 - 7, 0, 10}
Scalars ==
    {JNull, JBool(TRUE), JBool(FALSE)} \cup {JInt(i) : i \in Ints} \cup {JStr(str) : str \in Strings}
Empties == {JList(<< >>), JMap(<< >>)}
Elements == {JNull, JBool(TRUE), JInt(0 - 7), JStr(<<Quote>>)} \cup Empties
Lists == {JList(xs) : xs \in SeqsUpTo(Elements, MaxItems)}
Keys == {<<"k">>, <<Quote>>}
Nested ==
    {JList(<<JMap(<< >>)>>), JMap(<<Member(<<"k">>, JMap(<<Member(<<"k">>, JStr(<<"a">>))>>))>>)}
Maps ==
    {JMap(<< >>)}
        \cup {JMap(<<Member(key, v)>>) : key \in Keys, v \in Scalars \cup Empties \cup Nested}
Values == Scalars \cup Lists \cup Maps
Contexts ==
    {JMap(<< >>)}
        \cup {JMap(<<Member(<<"node_id">>, v)>>) : v \in Values}
        \cup {JMap(<<Member(<<"node_id">>, v), Member(key, w)>>) :
                 v \in Values, key \in Keys, w \in Scalars}

PlainTask ==
    [cls |-> "TaskMessage", task_id |-> 10, correlation_id |-> 255,
     created_at |-> [sec |-> 0, us |-> 123456], priority |-> 3,
     entity_type |-> "REASONING", task_type |-> "PlannerAgent", context |-> JMap(<< >>)]

TaskMessages ==
    {[PlainTask EXCEPT !.context = c] : c \in Contexts}
        \cup [cls : {"TaskMessage"}, task_id : UUIDs, correlation_id : {0, 255},
              created_at : Timestamps, priority : TaskPriorities, entity_type : EntityTypes,
              task_type : TaskTypes, context : {JMap(<<Member(<<"node_id">>, JStr(<<"a">>))>>)}]

ResultMessages ==
    [cls : {"ResultMessage"}, task_id : UUIDs, correlation_id : {255},
     completed_at : Timestamps, status : TaskStatuses,
     artifacts_path : Optional(Strings), log_output : Strings,
     reflections : Optional({<<"a">>}),
     metrics : Optional([input_tokens : {100}, output_tokens : {0, 50}])]

InitCodec ==
    /\ OrchestratorIdle /\ EmitIdle /\ QueueIdle /\ DebugIdle
    /\ \/ \E msg \in TaskMessages : original = <<msg>>
       \/ \E msg \in ResultMessages : original = <<msg>>
    /\ wire = << >>
    /\ decoded = << >>

\* body = message.model_dump_json()
Serialize ==
    /\ wire = << >>
    /\ wire' = model_dump_json(original[1])
    /\ UNCHANGED <<main_vars, emit_vars, queue_vars, debug_vars, original, decoded>>

\* message = TaskMessage.model_validate_json(body), ResultMessage.model_validate_json(body)
Deserialize ==
    /\ wire # << >>
    /\ decoded = << >>
    /\ decoded' = model_validate_json(original[1].cls, wire)
    /\ UNCHANGED <<main_vars, emit_vars, queue_vars, debug_vars, original, wire>>

SpecCodec == InitCodec /\ [][Serialize \/ Deserialize]_vars

\* The design context and the DAG are two documents, and the state callback is
\* the caller's: a node of the graph may be missing from the design context,
\* and the callback may raise on a notification.
MaxFaultyFailures == 1

RaisingCallbacks ==
    {[present |-> TRUE, fails |-> {<<n, s>>}] :
        n \in {"A", "B"}, s \in {LINTING, DONE, FAILED}}

InitFaulty ==
    \/ \E cb \in {NoCallback, GoodCallback} \cup RaisingCallbacks :
          InitGraph(ChainDag, MaxFaultyFailures, 0, ChainDag.node_ids, cb)
    \/ \E missing \in {"B", "C"}, cb \in {NoCallback, GoodCallback} :
          InitGraph(ChainDag, MaxFaultyFailures, 0, ChainDag.node_ids \ {missing}, cb)

SpecFaulty == InitFaulty /\ [][NextOnce]_vars

\* =================================================================== claims
\* Observations shared by the claims.
TaskIds == 1..Len(published)
TasksOf(n) == {i \in TaskIds : published[i].node = n}
NoTask(n) == TasksOf(n) = {}
DebugTasks(n, reason) ==
    {i \in TaskIds : published[i].node = n /\ published[i].kind = "debug"
                     /\ published[i].reason = reason}
\* a result was taken from the queue in this step
Took == Len(processed_log') = Len(processed_log) + 1
Taken == processed_log'[Len(processed_log')]
\* an earlier result for the task was already dispatched into the state machine
AlreadyResolved(id) ==
    \E i \in 1..Len(processed_log) : processed_log[i].task_id = id /\ processed_log[i].matched

\* ------------------------------------------------------------------------ C1
\* C1: re-delivery of a result whose task_id was already resolved changes no
\* node state, attempt counter, retry counter or Debug Pending Record and
\* publishes no task.
C1_RedeliveryIsNoOp ==
    [][(Took /\ AlreadyResolved(Taken.task_id))
         => UNCHANGED <<state, attempt_by_node, debug_attempts_by_node, pending_debug, published>>]_vars

StageOfReason(reason) == IF reason = "rtl_lint" THEN "lint" ELSE reason

Max(S) == CHOOSE x \in S : \A y \in S : y <= x

\* the number of tasks that were published when the last SUCCESS of the
\* reason's stage was dispatched for the node (0: there was none)
LastClear(n, reason) ==
    Max({0} \cup {processed_log[i].seen : i \in
        {j \in 1..Len(processed_log) :
            /\ processed_log[j].matched
            /\ processed_log[j].status = SUCCESS
            /\ published[processed_log[j].task_id].node = n
            /\ published[processed_log[j].task_id].kind = StageOfReason(reason)}})

DebugsSinceClear(n, reason) ==
    Cardinality({i \in DebugTasks(n, reason) : i > LastClear(n, reason)})

RECURSIVE Ancestors(_, _)
Ancestors(n, depth) ==
    IF depth = 0 THEN {}
    ELSE deps_map[n] \cup UNION {Ancestors(d, depth - 1) : d \in deps_map[n] \cap AllNodes}

\* C3: a node with a FAILED node among its direct or transitive dependencies
\* is FAILED itself and no task was ever published for it.
C3_FailurePropagates ==
    \A n \in node_ids :
        (\E d \in Ancestors(n, Cardinality(AllNodes)) : d \in node_ids /\ state[d] = FAILED)
            => state[n] = FAILED /\ NoTask(n)

\* ------------------------------------------------------------------------ C4
\* C4: in the step in which a started node A becomes FAILED, every pending
\* node B that lists A as a dependency becomes FAILED and finalized, and no
\* task is published for B in that step or ever after.
C4_DirectCascade ==
    [][/\ \A a \in node_ids, b \in node_ids :
            (/\ ~NoTask(a) /\ state[a] # FAILED /\ state'[a] = FAILED
             /\ b \in pending_nodes /\ a \in deps_map[b])
                => /\ state'[b] = FAILED
                   /\ b \in done_nodes' /\ b \notin pending_nodes'
                   /\ \A i \in 1..Len(published') : published'[i].node # b
       /\ \A b \in node_ids :
            (state[b] = FAILED /\ NoTask(b))
                => state'[b] = FAILED /\ \A i \in 1..Len(published') : published'[i].node # b
      ]_vars

C4_Witness ==
    \E a \in node_ids, b \in node_ids :
        /\ a \in deps_map[b] /\ ~NoTask(a) /\ state[a] = FAILED
        /\ state[b] = FAILED /\ NoTask(b) /\ b \in done_nodes

\* ------------------------------------------------------------------------ C5
\* the tasks published for a node in this step
NewTasksOf(n) == {i \in (Len(published) + 1)..Len(published') : published'[i].node = n}

\* C5: when the result of a DEBUG task is processed while the node's RTL and
\* testbench are what they were when that DEBUG task was issued, the node is
\* FAILED after the step and the step publishes no task for it.
C5_NoProgressTermination ==
    [][\A n \in node_ids :
          (/\ Took /\ Taken.matched
           /\ published[Taken.task_id].kind = "debug"
           /\ published[Taken.task_id].node = n
           /\ _hash_file(rtl[n]) = _hash_file(issue_files[Taken.task_id][1])
           /\ _hash_file(tb[n]) = _hash_file(issue_files[Taken.task_id][2]))
              => state'[n] = FAILED /\ NewTasksOf(n) = {}
      ]_vars

\* ------------------------------------------------------------------------ C6
\* a SUCCESS of a stage kind was dispatched for the node
Passed(n, kind) ==
    \E j \in 1..Len(processed_log) :
        /\ processed_log[j].matched /\ processed_log[j].status = SUCCESS
        /\ published[processed_log[j].task_id].node = n
        /\ published[processed_log[j].task_id].kind = kind

\* C6: a node whose scope is not "full" and that has passed LINTING is DONE,
\* and no testbench, testbench-lint, simulation or acceptance task was
\* published for it at any point of the run.
C6_ScopeSkip ==
    \A n \in node_ids :
        (node_scopes[n] # "full" /\ Passed(n, "lint")) =>
                /\ state[n] = DONE
                /\ \A i \in TasksOf(n) :
                      published[i].kind \notin {"tb", "tb_lint", "sim", "acceptance"}

\* ------------------------------------------------------------------------ C7
\* a result of the task was taken from the queue by the control loop
Resolved(id) == \E j \in 1..Len(processed_log) : processed_log[j].task_id = id

\* C7: at most one published task of a node is unresolved at any time (hence
\* at most one per stage key).
C7_SingleOutstandingTask ==
    \A n \in node_ids : Cardinality({i \in TasksOf(n) : ~Resolved(i)}) <= 1

\* ------------------------------------------------------------------------ C9
LintReason(kind) == IF kind = "lint" THEN "rtl_lint" ELSE "tb_lint"

\* C9: a FAILURE of LINTING (rtl_lint) or TB_LINTING (tb_lint) finalizes the
\* node FAILED without a DEBUG task when the retry counter of the reason has
\* reached max_debug_retries; otherwise it adds one to the counter, moves the
\* node to DEBUGGING and publishes exactly one task for it, a DEBUG task with
\* that reason and the attempt number of the failing stage.
C9_LintRetryDecision ==
    [][\A n \in node_ids :
          (/\ Took /\ Taken.matched /\ Taken.status = FAILURE
           /\ published[Taken.task_id].node = n
           /\ published[Taken.task_id].kind \in {"lint", "tb_lint"})
              => LET reason == LintReason(published[Taken.task_id].kind)
                     count == debug_attempts_by_node[n][reason]
                 IN IF count >= max_debug_retries
                    THEN /\ state'[n] = FAILED
                         /\ NewTasksOf(n) = {}
                         /\ debug_attempts_by_node'[n] = debug_attempts_by_node[n]
                    ELSE /\ debug_attempts_by_node'[n] =
                              [debug_attempts_by_node[n] EXCEPT ![reason] = count + 1]
                         /\ state'[n] = DEBUGGING
                         /\ NewTasksOf(n) = {Len(published) + 1}
                         /\ published'[Len(published) + 1] =
                              [node |-> n, kind |-> "debug",
                               attempt |-> published[Taken.task_id].attempt,
                               reason |-> reason]
      ]_vars

\* the (max_debug_retries + 1)-th consecutive lint failure has failed a node
C9_Witness ==
    \E n \in node_ids :
        /\ state[n] = FAILED
        /\ debug_attempts_by_node[n]["rtl_lint"] = max_debug_retries
        /\ Len(processed_log) > 0
        /\ LET last == processed_log[Len(processed_log)]
           IN /\ last.status = FAILURE /\ last.matched
              /\ published[last.task_id].node = n
              /\ published[last.task_id].kind = "lint"

\* ----------------------------------------------------------------------- C10
\* a SUCCESS of the node's task of a kind and attempt was dispatched before
\* task id was published
PassedBefore(n, kind, attempt, id) ==
    \E j \in 1..Len(processed_log) :
        /\ processed_log[j].matched /\ processed_log[j].status = SUCCESS
        /\ processed_log[j].seen < id
        /\ published[processed_log[j].task_id].node = n
        /\ published[processed_log[j].task_id].kind = kind
        /\ published[processed_log[j].task_id].attempt = attempt

SoleNewTask(n, kind, attempt, reason) ==
    /\ NewTasksOf(n) = {Len(published) + 1}
    /\ published'[Len(published) + 1] =
           [node |-> n, kind |-> kind, attempt |-> attempt, reason |-> reason]

Terminal(n) == state[n] \in {DONE, FAILED}

DebugRoundOf(id) ==
    LET js == {j \in 1..Len(processed_log) :
                  /\ processed_log[j].seen = id - 1
                  /\ processed_log[j].matched /\ processed_log[j].status = SUCCESS
                  /\ published[processed_log[j].task_id].kind = "debug"
                  /\ published[processed_log[j].task_id].node = published[id].node}
    IN IF js = {} THEN 0 ELSE processed_log[CHOOSE j \in js : TRUE].task_id

\* the debug round that published task id rewrote the testbench
TbChangedBefore(id) ==
    _hash_file(issue_files[id][2]) # _hash_file(issue_files[DebugRoundOf(id)][2])

\* C11: a debug round that changed the RTL puts the node in LINTING at the new
\* attempt, and the SUCCESS of that lint moves a full-scope node to TB_LINTING
\* when the round also changed the testbench and to SIMULATING when it did
\* not, with the task of that stage and attempt as the only new task.
C11_RoutingAfterRtlDebug ==
    [][\A n \in node_ids :
          (Took /\ Taken.matched /\ Taken.status = SUCCESS
                /\ published[Taken.task_id].node = n /\ node_scopes[n] = "full") =>
             LET t == published[Taken.task_id]
             IN /\ (t.kind = "debug"
                      /\ _hash_file(rtl[n]) # _hash_file(issue_files[Taken.task_id][1]))
                     => state'[n] = LINTING /\ SoleNewTask(n, "lint", t.attempt + 1, "none")
                /\ (t.kind = "lint" /\ DebugRoundOf(Taken.task_id) # 0)
                     => IF TbChangedBefore(Taken.task_id)
                        THEN state'[n] = TB_LINTING
                                /\ SoleNewTask(n, "tb_lint", t.attempt, "none")
                        ELSE state'[n] = SIMULATING
                                /\ SoleNewTask(n, "sim", t.attempt, "none")
      ]_vars

\* ----------------------------------------------------------------------- C12
\* the result taken in this step is of a DEBUG task of node n, and the node's
\* RTL is what it was when that task was issued while its testbench is not
OnlyTbChanged(n) ==
    /\ Took /\ Taken.matched
    /\ published[Taken.task_id].kind = "debug"
    /\ published[Taken.task_id].node = n
    /\ _hash_file(rtl[n]) = _hash_file(issue_files[Taken.task_id][1])
    /\ _hash_file(tb[n]) # _hash_file(issue_files[Taken.task_id][2])

\* C12: when a debug result is processed with the RTL hash unchanged and the
\* testbench hash changed, the one task published for the node is a tb_lint
\* task at the debug task's attempt + 1 and the node is in TB_LINTING.
C12_RoutingAfterTbOnlyDebug ==
    [][\A n \in node_ids :
          OnlyTbChanged(n) =>
              /\ state'[n] = TB_LINTING
              /\ SoleNewTask(n, "tb_lint", published[Taken.task_id].attempt + 1, "none")
      ]_vars

\* a tb_lint task at attempt 2 that a testbench-only debug round of the
\* simulation failure at attempt 1 has published
C12_Witness ==
    \E n \in node_ids : \E i \in TasksOf(n) :
        /\ published[i].kind = "tb_lint" /\ published[i].attempt = 2
        /\ DebugRoundOf(i) # 0
        /\ published[DebugRoundOf(i)].reason = "sim"
        /\ published[DebugRoundOf(i)].attempt = 1
        /\ _hash_file(issue_files[i][1]) = _hash_file(issue_files[DebugRoundOf(i)][1])
        /\ state[n] = TB_LINTING

\* ----------------------------------------------------------------------- C13
\* the result taken in this step is a FAILURE of a task of the kind of node n
FailureTaken(n, kind) ==
    /\ Took /\ Taken.matched /\ Taken.status = FAILURE
    /\ published[Taken.task_id].node = n
    /\ published[Taken.task_id].kind = kind

\* C13: a FAILURE of an acceptance task finalizes the node FAILED in that
\* step, publishes no task for it (no debug, distill or reflect task) and
\* leaves its retry counters as they were.
C13_AcceptanceFailureIsFinal ==
    [][\A n \in node_ids :
          FailureTaken(n, "acceptance") =>
              /\ state'[n] = FAILED
              /\ n \in done_nodes' /\ n \notin active_nodes'
              /\ NewTasksOf(n) = {}
              /\ debug_attempts_by_node'[n] = debug_attempts_by_node[n]
      ]_vars

\* a node failed by the FAILURE of its acceptance task, with retry budget left
C13_Witness ==
    \E n \in node_ids :
        /\ state[n] = FAILED
        /\ Len(processed_log) > 0
        /\ LET last == processed_log[Len(processed_log)]
           IN /\ last.status = FAILURE /\ last.matched
              /\ published[last.task_id].node = n
              /\ published[last.task_id].kind = "acceptance"
        /\ \A reason \in Reasons : debug_attempts_by_node[n][reason] < max_debug_retries
        /\ \A i \in TasksOf(n) : published[i].kind \notin {"debug", "distill", "reflect"}

\* ----------------------------------------------------------------------- C14
ReasonOfStage(kind) == IF kind = "lint" THEN "rtl_lint" ELSE kind

\* C14: a SUCCESS of a lint, tb_lint or sim task sets the node's retry counter
\* of rtl_lint, tb_lint or sim to zero and leaves its other counters alone.
C14_CounterResetOnSuccess ==
    [][\A n \in node_ids :
          (/\ Took /\ Taken.matched /\ Taken.status = SUCCESS
           /\ published[Taken.task_id].node = n
           /\ published[Taken.task_id].kind \in {"lint", "tb_lint", "sim"})
              => debug_attempts_by_node'[n] =
                    [debug_attempts_by_node[n]
                        EXCEPT ![ReasonOfStage(published[Taken.task_id].kind)] = 0]
      ]_vars

\* a reason that used its whole budget, was cleared by a SUCCESS of its stage
\* and has been granted a debug round again
C14_Witness ==
    \E n \in node_ids, reason \in Reasons :
        /\ Cardinality(DebugTasks(n, reason)) = max_debug_retries + 1
        /\ debug_attempts_by_node[n][reason] = 1
        /\ state[n] = DEBUGGING

\* ----------------------------------------------------------------------- C15
\* C15: a debug worker whose patch writes no file answers FAILURE, and a
\* FAILURE of a DEBUG task finalizes the node FAILED in that step, with no
\* task published for it (no further debug round) and its retry counters
\* untouched, whatever budget is left.
C15_FailedDebugIsTerminal ==
    /\ [][\A n \in node_ids :
            FailureTaken(n, "debug") =>
                /\ state'[n] = FAILED
                /\ n \in done_nodes' /\ n \notin active_nodes'
                /\ NewTasksOf(n) = {}
                /\ debug_attempts_by_node'[n] = debug_attempts_by_node[n]
         ]_vars
    /\ [](\A out \in WorkerOutcomes("debug") :
            (out.rtl = NoFile /\ out.tb = NoFile) => out.status = FAILURE)

\* a node failed by the FAILURE of its first DEBUG task, which left the files
\* as they were, with retry budget left for the reason
C15_Witness ==
    \E n \in node_ids :
        /\ state[n] = FAILED
        /\ Len(processed_log) > 0
        /\ LET last == processed_log[Len(processed_log)]
           IN /\ last.status = FAILURE /\ last.matched
              /\ published[last.task_id].node = n
              /\ published[last.task_id].kind = "debug"
              /\ debug_attempts_by_node[n][published[last.task_id].reason] < max_debug_retries
              /\ rtl[n] = issue_files[last.task_id][1]
              /\ tb[n] = issue_files[last.task_id][2]

\* ----------------------------------------------------------------------- C16
\* the result taken in this step, and whether an exception is raised while it
\* is processed
TakenResult == [task_id |-> Taken.task_id, status |-> Taken.status]
RaisedInStep == HandleResult(Cur, deps_map, node_scopes, TakenResult, rtl, tb).raised

\* C16: an error raised while one result is processed is caught: the node that
\* owns the result is treated as failed and the loop keeps running; the error
\* never leaves the control loop.
C16_ErrorContained ==
    [][(Took /\ RaisedInStep)
         => (loop' = "running" /\ state'[published[Taken.task_id].node] = FAILED)]_vars

\* ----------------------------------------------------------------------- C17
\* what the step does to the orchestrator's state when the notification
\* returns normally
Quiet(o) == [o EXCEPT !.callback = GoodCallback]
SameOutcome(o) ==
    /\ state' = o.state
    /\ <<pending_nodes', active_nodes', done_nodes'>> = <<o.pending_nodes, o.active_nodes, o.done_nodes>>
    /\ published' = o.published
    /\ loop' = IF o.raised THEN "crashed" ELSE loop

\* C17: without a state callback, or with one that raises, every transition of
\* a step is made as with a callback that returns: the node ends in the new
\* state, the bookkeeping sets are updated and the follow-up task is published.
C17_CallbackNeverBlocks ==
    [][Took => SameOutcome(HandleResult(Quiet(Cur), deps_map, node_scopes, TakenResult, rtl, tb))]_vars

\* ----------------------------------------------------------------------- C18
\* C18: once a node is DONE or FAILED its state never changes again and no
\* task is published for it afterwards, whatever results are delivered later.
C18_TerminalAbsorbing ==
    [][\A n \in node_ids :
          state[n] \in {DONE, FAILED}
            => (state'[n] = state[n] /\ NewTasksOf(n) = {})]_vars

\* ----------------------------------------------------------------------- C19
HappyPath == <<"impl", "lint", "tb", "tb_lint", "sim", "acceptance">>

\* a run of the single full-scope node A in which every answer so far is SUCCESS
AllSuccess ==
    /\ node_ids = {"A"} /\ deps_map["A"] = {} /\ node_scopes["A"] = "full"
    /\ loop # "init"
    /\ \A r \in results : r.status = SUCCESS
    /\ \A i \in 1..Len(processed_log) : processed_log[i].status = SUCCESS

\* C19: a single full-scope node with no dependencies whose every task returns
\* SUCCESS gets the tasks impl, lint, tb, tb_lint, sim, acceptance in this
\* order and no other (no DEBUG task), keeps the attempt counter 1, and is DONE
\* when the six results are processed, with exactly six tasks published.
C19_HappyPath ==
    AllSuccess =>
        /\ Len(published) <= Len(HappyPath)
        /\ \A i \in TaskIds : published[i].node = "A" /\ published[i].kind = HappyPath[i]
        /\ attempt_by_node["A"] = 1
        /\ state["A"] # FAILED
        /\ (Len(processed_log) = Len(HappyPath) => state["A"] = DONE)
        /\ (state["A"] = DONE => Len(published) = Len(HappyPath))

C19_Witness ==
    AllSuccess /\ state["A"] = DONE /\ Len(published) = Len(HappyPath) /\ loop = "exited"

\* ----------------------------------------------------------------------- C20
\* the debug round whose result is entry j of the log left an RTL text other
\* than the one its DEBUG task was issued on
RtlChangedIn(j) ==
    LET d == processed_log[j].task_id
        k == processed_log[j].seen
        now == IF Len(published) > k THEN issue_files[k + 1][1] ELSE rtl[published[d].node]
    IN _hash_file(now) # _hash_file(issue_files[d][1])

\* a run of the single node A in which, so far, the implementation succeeded,
\* every lint failed and every debug round succeeded and changed the RTL
LintKeepsFailing ==
    /\ node_ids = {"A"}
    /\ \A j \in 1..Len(processed_log) :
          LET kind == published[processed_log[j].task_id].kind
          IN /\ kind \in {"impl", "lint", "debug"}
             /\ processed_log[j].status = (IF kind = "lint" THEN FAILURE ELSE SUCCESS)
             /\ kind = "debug" => RtlChangedIn(j)

LintFailures ==
    Cardinality({j \in 1..Len(processed_log) :
                    published[processed_log[j].task_id].kind = "lint"})

DebugIssued == Cardinality({i \in TaskIds : published[i].kind = "debug"})

\* C20: with max_debug_retries = 2, a single node whose lint fails, and fails
\* again after each RTL-changing debug round, is FAILED after its 2nd lint
\* failure, and exactly 2 DEBUG tasks are issued for it.
C20_FailedAfterSecondFailure ==
    (LintKeepsFailing /\ LintFailures = max_debug_retries)
        => (state["A"] = FAILED /\ DebugIssued = max_debug_retries)

\* C20 (amended): each of the first max_debug_retries lint failures issues a
\* DEBUG task and the node is not FAILED; the next lint failure, the 3rd,
\* finalizes it FAILED with exactly max_debug_retries DEBUG tasks issued.
C20_FailedAfterThirdFailure ==
    LintKeepsFailing =>
        /\ LintFailures <= max_debug_retries + 1
        /\ LintFailures <= max_debug_retries
             => (state["A"] # FAILED /\ DebugIssued = LintFailures)
        /\ LintFailures = max_debug_retries + 1
             => (state["A"] = FAILED /\ DebugIssued = max_debug_retries)

C20_Witness ==
    /\ LintKeepsFailing /\ LintFailures = max_debug_retries + 1
    /\ state["A"] = FAILED /\ DebugIssued = max_debug_retries

\* ----------------------------------------------------------------------- C21
\* C21: no task is dropped silently: a task message that a worker rejected
\* (or acknowledged without a result) has a ResultMessage published for it.
C21_NoSilentDrop == \A r \in rejected : r[1] \in replied

\* ----------------------------------------------------------------------- C22
StageState(kind) ==
    IF kind = "tb_lint" THEN TB_LINTING
    ELSE IF kind = "sim" THEN SIMULATING
    ELSE IF kind = "distill" THEN DISTILLING
    ELSE "none"

\* a task was rejected for an input error and its node is still in the stage
\* of that task
InStageAfterInputError ==
    \E r \in rejected :
        /\ r[2] = "input"
        /\ state[published[r[1]].node] = StageState(published[r[1]].kind)
        /\ \A i \in TasksOf(published[r[1]].node) : i <= r[1]

\* C22: a task rejected for an input error is not published again and gets no
\* later answer, and its node takes the failure transition of the stage: it
\* does not remain in the stage.
C22_InputErrorFailsStage ==
    /\ [][\A r \in rejected :
            r[2] = "input" => (r[1] \notin replied' /\ PropsOf(r[1])' = PropsOf(r[1]))]_vars
    /\ (InStageAfterInputError ~> ~InStageAfterInputError)

\* ----------------------------------------------------------------------- C23
RepublishedIn(id) == Republished(id)' > Republished(id)

\* C23: a message is published again for a transient error only while its retry
\* count is below MAX_RETRIES, with the count one higher; when the count has
\* reached MAX_RETRIES the message is rejected without requeue; so a task is
\* re-published at most MAX_RETRIES times.
C23_BoundedTransientRetry ==
    [][\A id \in TaskIds :
          /\ RepublishedIn(id)
               => /\ get_retry_count(PropsOf(id)) < MAX_RETRIES
                  /\ get_retry_count(PropsOf(id)') = get_retry_count(PropsOf(id)) + 1
                  /\ Republished(id)' = Republished(id) + 1
                  /\ rejected' = rejected
          /\ <<id, "retries">> \in rejected' \ rejected
               => /\ get_retry_count(PropsOf(id)) >= MAX_RETRIES
                  /\ UNCHANGED <<headers, republished>>
          /\ Republished(id)' <= MAX_RETRIES]_vars

C23_Witness ==
    \E id \in TaskIds : <<id, "retries">> \in rejected /\ Republished(id) = MAX_RETRIES

\* ----------------------------------------------------------------------- C24
\* C24: a result whose task_id is the id of no published task is ignored: no
\* node state, attempt counter, retry counter, Debug Pending Record, task map
\* or Task Memory entry changes and nothing is published.
C24_UnmatchedIgnored ==
    [][(Took /\ Taken.task_id \notin TaskIds)
         => UNCHANGED <<state, attempt_by_node, debug_attempts_by_node, pending_debug,
                        post_lint_next_kind, tb_generated_by_node, tasks, task_memory,
                        published, pending_nodes, active_nodes, done_nodes>>]_vars

C24_Witness ==
    /\ \E j \in 1..Len(processed_log) :
          processed_log[j].task_id \notin TaskIds /\ ~processed_log[j].matched
          /\ processed_log[j].seen >= 2
    /\ \E n \in node_ids : state[n] \notin {PENDING, DONE, FAILED}

\* ----------------------------------------------------------------------- C25
\* what the orchestrator remembers of node y besides its lifecycle state
MemoryOf(y) ==
    <<attempt_by_node[y], debug_attempts_by_node[y], pending_debug[y],
      post_lint_next_kind[y], tb_generated_by_node[y], tasks[y]>>

\* C25: the dispatch of a result of node x changes nothing the orchestrator
\* remembers of another node y, and changes y's state only when x is finalized
\* by it: a pending y is then started (its memory is initialised and its
\* IMPLEMENTATION task recorded) or cascade-failed.
C25_CrossNodeIsolation ==
    [][\A y \in node_ids :
          (Took /\ Taken.matched /\ published[Taken.task_id].node # y)
            => \/ state'[y] = state[y] /\ MemoryOf(y)' = MemoryOf(y)
               \/ /\ state[y] = PENDING /\ state'[y] = FAILED
                  /\ MemoryOf(y)' = MemoryOf(y)
                  /\ state'[published[Taken.task_id].node] = FAILED
               \/ /\ state[y] = PENDING /\ state'[y] = IMPLEMENTING
                  /\ state'[published[Taken.task_id].node] \in {DONE, FAILED}]_vars

\* two nodes are in mid-pipeline, each with a repair round behind it, and a
\* result of one of them has just been dispatched
C25_Witness ==
    /\ \E x, y \in node_ids :
          /\ x # y
          /\ state[x] \notin {PENDING, DONE, FAILED} /\ state[y] \notin {PENDING, DONE, FAILED}
          /\ attempt_by_node[x] = 2 /\ attempt_by_node[y] = 2
    /\ Len(processed_log) >= 6

\* ----------------------------------------------------------------------- C26
\* the node is in the finalized set
Finalized(n) == n \in done_nodes

StartedIn(n) == state[n] = PENDING /\ state'[n] = IMPLEMENTING

\* C26: a node is started only when every node of its dependency set is
\* finalized, at startup or in the step in which the last of them is finalized;
\* starting it publishes its IMPLEMENTATION task as its only task, sets its
\* attempt counter to 1 and clears its retry ledger; no node whose dependencies
\* are all finalized is left pending by a step; a node is started at most once.
C26_ReadinessScheduling ==
    [][\A n \in node_ids :
          /\ StartedIn(n)
               => /\ \A d \in deps_map[n] : Finalized(d)'
                  /\ loop = "init" \/ \E d \in deps_map[n] : ~Finalized(d) /\ Finalized(d)'
                  /\ \E i \in NewTasksOf(n) :
                        /\ NewTasksOf(n) = {i}
                        /\ published'[i] = [node |-> n, kind |-> "impl", attempt |-> None,
                                             reason |-> "none"]
                  /\ attempt_by_node'[n] = 1
                  /\ debug_attempts_by_node'[n] = [r \in Reasons |-> 0]
          /\ state'[n] = IMPLEMENTING => state[n] \in {PENDING, IMPLEMENTING}
          /\ (loop' = "running" /\ state'[n] = PENDING)
               => \E d \in deps_map[n] : ~Finalized(d)'
          /\ Cardinality({i \in TasksOf(n)' : published'[i].kind = "impl"}) <= 1]_vars

\* a node with two dependencies was started in the step that finalized the
\* second of them
C26_Witness ==
    \E n \in node_ids :
        /\ Cardinality(deps_map[n]) = 2
        /\ state[n] = IMPLEMENTING
        /\ \A d \in deps_map[n] : state[d] = DONE

\* ----------------------------------------------------------------------- C27
NoRoots == node_ids # {} /\ \A n \in node_ids : deps_map[n] # {}

\* C27: when no node of a non-empty graph has an empty dependency set, run()
\* fails at startup with the configuration error: the result loop is not
\* entered, no task is published and no node leaves PENDING.
C27_NoRootsIsFatal ==
    [][NoRoots => /\ loop' = "error"
                  /\ published' = << >>
                  /\ \A n \in node_ids : state'[n] = PENDING
                  /\ processed_log' = << >>]_vars

C27_Witness == NoRoots /\ loop = "error" /\ published = << >>

\* ----------------------------------------------------------------------- C28
\* the stage key under which task i is recorded in its node's task map
KeyOf(i) == _stage_key(published[i].kind, published[i].attempt)

\* C28: no two tasks of a run are published for the same node under the same
\* stage key.
C28_StageKeysUnique ==
    \A i, j \in TaskIds :
        (i # j /\ published[i].node = published[j].node) => KeyOf(i) # KeyOf(j)

\* ----------------------------------------------------------------------- C29
\* the (node, stage key) the loop finds for the result taken in this step
HitOf(id) == CHOOSE p \in Matches(Cur, id) : TRUE

\* C29: the Task Memory log of a (node, stage key) is written at most once: no
\* result is recorded under a stage key that already has a log.
C29_TaskMemoryWriteOnce ==
    [][(Took /\ Taken.matched)
         => /\ HitOf(Taken.task_id)[2] \notin DOMAIN task_memory[HitOf(Taken.task_id)[1]]
            /\ \A n \in node_ids : \A k \in DOMAIN task_memory[n] :
                  task_memory'[n][k] = task_memory[n][k]]_vars

\* ----------------------------------------------------------------------- C30
\* the states of node n in the notifications made in this step, in order
RECURSIVE StatesIn(_, _)
StatesIn(notes, n) ==
    IF notes = << >> THEN << >>
    ELSE (IF Head(notes)[1] = n THEN <<Head(notes)[2]>> ELSE << >>) \o StatesIn(Tail(notes), n)

NewNotes == SubSeq(notified', Len(notified) + 1, Len(notified'))

\* C30: with a state callback configured, every transition of a node, cascade
\* failures and finalizations included, is notified once as (node_id,
\* new_state) and nothing else is: in every step the notifications of a node
\* are the state it moved to, and earlier notifications stay as they were.
C30_EveryTransitionNotified ==
    [][state_callback.present
         => /\ Len(notified') >= Len(notified)
            /\ SubSeq(notified', 1, Len(notified)) = notified
            /\ \A n \in node_ids :
                  StatesIn(NewNotes, n) = IF state'[n] # state[n] THEN <<state'[n]>> ELSE << >>]_vars

\* a failure was notified for a node that was never started, after the
\* notifications of the node it waited for
C30_Witness ==
    /\ state_callback.present
    /\ \E i, j \in 1..Len(notified) :
          /\ i < j
          /\ notified[i] = <<"A", FAILED>> /\ notified[j] = <<"B", FAILED>>
    /\ NoTask("B")
    /\ state["B"] = FAILED

\* ----------------------------------------------------------------------- C32
\* the stage kinds whose tasks carry the attempt number
AttemptKinds == {"lint", "tb_lint", "sim", "distill", "reflect", "debug", "acceptance"}

\* a matched SUCCESS of a debug task of node n was dispatched in this step
DebugSuccessTaken(n) ==
    /\ Took /\ Taken.matched /\ Taken.status = SUCCESS
    /\ published[Taken.task_id].node = n
    /\ published[Taken.task_id].kind = "debug"

\* C32: the attempt counter of a node is 1 when the node starts, grows by
\* exactly one when a successful debug result of the node is processed and
\* changes at no other time, and every lint, tb_lint, sim, distill, reflect,
\* debug and acceptance task is published under the node's current attempt.
C32_AttemptCounter ==
    [][\A n \in node_ids :
          /\ StartedIn(n) => attempt_by_node'[n] = 1
          /\ DebugSuccessTaken(n) => attempt_by_node'[n] = attempt_by_node[n] + 1
          /\ (~StartedIn(n) /\ ~DebugSuccessTaken(n))
                => attempt_by_node'[n] = attempt_by_node[n]
          /\ \A i \in NewTasksOf(n) :
                published'[i].kind \in AttemptKinds
                   => published'[i].attempt = attempt_by_node'[n]
      ]_vars

\* ----------------------------------------------------------------------- C33
\* a debug task of node n was published in this step
DebugIssuedIn(n) == \E i \in NewTasksOf(n) : published'[i].kind = "debug"

\* a matched result of a debug task of node n was dispatched in this step
DebugResultTaken(n) ==
    /\ Took /\ Taken.matched
    /\ published[Taken.task_id].node = n
    /\ published[Taken.task_id].kind = "debug"

\* C33: a node has a Debug Pending Record exactly while it is in DEBUGGING; the
\* record is created when the DEBUG task is issued, holding the RTL hash, the
\* testbench hash, the originating attempt and the reason of that moment, and
\* it is gone once the result of that task is processed, SUCCESS or FAILURE.
C33_PendingDebugLifecycle ==
    [][\A n \in node_ids :
          /\ pending_debug'[n].present <=> state'[n] = DEBUGGING
          /\ DebugIssuedIn(n) =>
                \E i \in NewTasksOf(n) :
                    pending_debug'[n] =
                        [present |-> TRUE, rtl_sha |-> _hash_file(rtl[n]),
                         tb_sha |-> _hash_file(tb[n]),
                         from_attempt |-> published'[i].attempt,
                         reason |-> published'[i].reason]
          /\ DebugResultTaken(n) => ~pending_debug'[n].present
      ]_vars

\* ----------------------------------------------------------------------- C34
\* the processed results of the tasks of node n of a stage kind
ResultsOf(n, kind) ==
    {j \in 1..Len(processed_log) :
        /\ processed_log[j].matched
        /\ published[processed_log[j].task_id].node = n
        /\ published[processed_log[j].task_id].kind = kind}

\* the status of the most recent of them ("none" when there is none)
LastStatus(n, kind) ==
    IF ResultsOf(n, kind) = {} THEN "none"
    ELSE processed_log[Max(ResultsOf(n, kind))].status

\* C34: a full-scope node is DONE only if the most recent result of each of
\* its lint, tb_lint, sim and acceptance stages was SUCCESS; in particular no
\* node is DONE while its last RTL-lint or testbench-lint result is a FAILURE.
C34_DoneMeansAllStagesPassed ==
    \A n \in node_ids :
        (state[n] = DONE /\ node_scopes[n] = "full") =>
            \A kind \in {"lint", "tb_lint", "sim", "acceptance"} :
                LastStatus(n, kind) = SUCCESS

\* ----------------------------------------------------------------------- C35
\* C35: with each result delivered at most once, pending_nodes, active_nodes
\* and done_nodes are pairwise disjoint and together hold every node, a node is
\* in pending_nodes exactly when it is PENDING and in done_nodes exactly when it
\* is DONE or FAILED, so the exit test of the loop (as many done nodes as
\* nodes) holds exactly when every node is terminal.
C35_RegistryConsistency ==
    /\ pending_nodes \cap active_nodes = {}
    /\ pending_nodes \cap done_nodes = {}
    /\ active_nodes \cap done_nodes = {}
    /\ pending_nodes \cup active_nodes \cup done_nodes = node_ids
    /\ \A n \in node_ids :
          /\ n \in pending_nodes <=> state[n] = PENDING
          /\ n \in done_nodes <=> Terminal(n)
    /\ (Cardinality(done_nodes) >= Cardinality(node_ids)) <=> \A n \in node_ids : Terminal(n)

\* one node failed at a stage, one failed by the cascade without ever being
\* started, and one still at work
C35_Witness ==
    /\ \E n \in done_nodes : state[n] = FAILED /\ ~NoTask(n)
    /\ \E n \in done_nodes : state[n] = FAILED /\ NoTask(n)
    /\ \E n \in active_nodes : state[n] = LINTING

\* ----------------------------------------------------------------------- C36
\* the stage kinds whose handlers give up on a stage key without attempt
GuardedKinds == {"sim", "distill", "reflect"}

\* the result dispatched in this step is one of those the guard is tested for
GuardTested ==
    /\ Took /\ Taken.matched
    /\ LET kind == _parse_stage_key(HitOf(Taken.task_id)[2]).kind
       IN \/ kind = "sim" /\ Taken.status = FAILURE
          \/ kind \in {"distill", "reflect"} /\ Taken.status = SUCCESS

\* C36: every sim, distill and reflect task is filed under a stage key that
\* carries an attempt number and is published with that attempt, so no sim
\* FAILURE, distill SUCCESS or reflect SUCCESS is dispatched with an absent
\* stage attempt (the guard that fails the node without a debug round).
C36_StageAttemptPresent ==
    [][/\ \A n \in node_ids : \A key \in DOMAIN tasks'[n] :
             _parse_stage_key(key).kind \in GuardedKinds
                => /\ _parse_stage_key(key).attempt # None
                   /\ published'[tasks'[n][key]].attempt = _parse_stage_key(key).attempt
       /\ GuardTested => _parse_stage_key(HitOf(Taken.task_id)[2]).attempt # None
      ]_vars

\* a simulation failure has gone through distill and reflect to a debug round
C36_Witness ==
    \E n \in node_ids :
        /\ state[n] = DEBUGGING
        /\ pending_debug[n].present /\ pending_debug[n].reason = "sim"
        /\ \E key \in DOMAIN tasks[n] : _parse_stage_key(key).kind = "reflect"
        /\ \E j \in 1..Len(processed_log) :
              /\ processed_log[j].matched /\ processed_log[j].status = SUCCESS
              /\ published[processed_log[j].task_id] =
                    [node |-> n, kind |-> "reflect", attempt |-> 1, reason |-> "none"]

\* ----------------------------------------------------------------------- C38
\* C38: EventEmitter.emit never raises, and every sink of the list is called
\* with every emitted event, whatever the sinks before it did with it.
C38_SinkIsolation ==
    /\ ~emit_raised
    /\ \A i \in 1..Len(sinks) : sink_calls[i] = emitted

\* a sink that wrote both events down although a sink before it raised on each
C38_Witness ==
    /\ Len(emitted) = 2
    /\ \E i, j \in 1..Len(sinks) :
          /\ i < j
          /\ sinks[i] = "unwritable" /\ sinks[j] = "jsonl"
          /\ sink_lines[i] = << >>
          /\ sink_lines[j] = emitted

\* ----------------------------------------------------------------------- C39
\* an LLM answer that fixes something: valid JSON whose patch is applied and
\* touches the RTL or the testbench
Fixes(resp) ==
    /\ resp.kind = "dict"
    /\ resp.touched # {}
    /\ "rtl" \in resp.touched => resp.rtl_lines
    /\ "tb" \in resp.touched => resp.tb_lines

MessageIds == (1..MaxProcessTasks) \X (0..MAX_RETRIES)

\* how often handle_task ran on the task, over all its messages
RECURSIVE HandledUpTo(_, _)
HandledUpTo(task_id, retry) ==
    (IF <<task_id, retry>> \in DOMAIN handled THEN Len(handled[<<task_id, retry>>]) ELSE 0)
        + (IF retry = 0 THEN 0 ELSE HandledUpTo(task_id, retry - 1))

HandledCount(task_id) == HandledUpTo(task_id, MAX_RETRIES)

\* a worker publishes a result only for a task of its own type
OwnResultsOnly ==
    \A result \in DOMAIN task_results :
        \E id \in DOMAIN messages :
            /\ messages[id].task_id = result.task_id
            /\ messages[id].task_type = result.by

\* a step that puts a message back changes neither the queue nor a message
\* nor a result
PutBackUnchanged ==
    [][redelivered' \ redelivered # {}
         => /\ process_tasks' = process_tasks
            /\ messages' = messages
            /\ handled' = handled
            /\ task_results' = task_results]_vars

\* only the worker of a message's type handles it
HandledByOwner ==
    \A id \in DOMAIN handled :
        \A k \in 1..Len(handled[id]) : handled[id][k].by = messages[id].task_type

\* a message in the queue is eventually handled by the worker of its type
EventuallyHandled ==
    \A id \in MessageIds :
        (id \in process_tasks)
            ~> (/\ id \in DOMAIN handled /\ id \notin process_tasks
                /\ Len(handled[id]) = 1
                /\ handled[id][1].by = messages[id].task_type)

\* C37 (as stated): on the shared process_tasks queue a worker publishes a
\* result only for tasks of its own type; a task of another type is put back
\* on the queue unchanged and is eventually handled by the worker of its type,
\* and handle_task runs on a task exactly once.
C37_HandledExactlyOnce ==
    /\ []OwnResultsOnly
    /\ PutBackUnchanged
    /\ []HandledByOwner
    /\ EventuallyHandled
    /\ [](\A t \in 1..MaxProcessTasks : HandledCount(t) <= 1)

\* C37 (amended): on the shared process_tasks queue a worker publishes a
\* result only for tasks of its own type; a task of another type is put back
\* on the queue unchanged and is eventually handled by the worker of its type;
\* every message is handled at most once, and a task is handled once, or once
\* more for each time its handler timed out and the worker published it again,
\* at most MAX_RETRIES + 1 times in all.
C37_HandledOncePerDelivery ==
    /\ []OwnResultsOnly
    /\ PutBackUnchanged
    /\ []HandledByOwner
    /\ EventuallyHandled
    /\ [](\A id \in DOMAIN handled : Len(handled[id]) <= 1)
    /\ [](\A t \in 1..MaxProcessTasks :
             /\ HandledCount(t) <= MAX_RETRIES + 1
             /\ HandledCount(t) > 1
                   => /\ <<t, HandledCount(t) - 1>> \in DOMAIN messages
                      /\ messages[<<t, 0>>].task_type \in RetryableTypes)

\* a message was put back by a worker of another type and then handled once by
\* its own worker, which published its result
C37_Witness ==
    \E id \in DOMAIN handled :
        /\ id \notin process_tasks
        /\ handled[id] = <<[by |-> messages[id].task_type, redelivered |-> TRUE]>>
        /\ \E result \in DOMAIN task_results :
              /\ result.task_id = messages[id].task_id
              /\ result.by = messages[id].task_type

====
